---- MODULE Spec2Model ----
(***************************************************************************)
(* Report lifecycle, access control and user accounts of the activity-      *)
(* report server: the handlers over the users, reports, report_comments    *)
(* and report_attachments tables and the attachment files.  A handler is   *)
(* a sequence of database statements; each statement is one atomic step    *)
(* of the call, so calls of different callers interleave between           *)
(* statements.                                                             *)
(***************************************************************************)
EXTENDS Integers, Sequences, FiniteSets, TLC

VARIABLES
  users,          \* rows of usersTable
  nextUserId,     \* serial of usersTable.id
  reports,        \* rows of reportsTable
  comments,       \* rows of reportCommentsTable
  attachments,    \* rows of reportAttachmentsTable
  nextReportId,   \* serial of reportsTable.id
  nextCommentId,  \* serial of reportCommentsTable.id
  nextAttachmentId, \* serial of reportAttachmentsTable.id
  blobs,          \* paths of the files present in the attachment storage
  clock,          \* the database / process clock (defaultNow(), new Date())
  calls           \* per caller slot: the handler call in flight

vars ==
  <<users, nextUserId, reports, comments, attachments, nextReportId,
    nextCommentId, nextAttachmentId, blobs, clock, calls>>

(***************************************************************************)
(* Bounds of the model.                                                    *)
(***************************************************************************)
MaxReports == 2
MaxComments == 2
MaxClock == 1
MaxListRows == 2
MaxAttachments == 2
MaxDashRows == 11
MaxUserId == 6

(***************************************************************************)
(* Enumerations and small value domains.                                   *)
(***************************************************************************)
Roles == {"STAFF", "PIMPINAN", "ADMIN"}
Statuses == {"DRAFT", "SUBMITTED", "APPROVED", "REJECTED"}
ReviewStatuses == {"APPROVED", "REJECTED"}

\* Texts are sequences of characters.
TitleA == <<"a">>
TitleB == <<"B">>
DescD == <<"d">>
LocL == <<"l">>
PartP == <<"p">>

Has(r, f) == f \in DOMAIN r

\* An optional input field: absent, or present with a value of S.
Opt(f, S) == {<<>>} \cup {[g \in {f} |-> v] : v \in S}

Min(a, b) == IF a < b THEN a ELSE b
Max(a, b) == IF a < b THEN b ELSE a

(***************************************************************************)
(* Database helpers.                                                       *)
(***************************************************************************)
\* db.select().from(table).where(eq(table.id, id)): the array of rows.
SelectById(table, id) ==
  IF \E r \in table : r.id = id
    THEN <<CHOOSE r \in table : r.id = id>>
    ELSE <<>>

\* Variant: the reference is not checked.
ForeignKeyUnchecked(table, id) == TRUE

\* references(() => table.id): an insert is accepted only if the row exists.
ForeignKeyHolds(table, id) == \E r \in table : r.id = id

Procs == {1, 2}

\* A call slot: the handler (op), its position (pc), its arguments, its local
\* variables (user, attachment, got, counts, page, total) and its outcome.  pre is the content of
\* the tables when the call was made, kept to state what a call changed.
Idle ==
  [op |-> "idle", pc |-> "idle", input |-> <<>>, userId |-> 0, userRole |-> "",
   user |-> <<>>, attachment |-> <<>>, got |-> {}, counts |-> <<>>,
   page |-> <<>>, total |-> 0,
   outcome |-> "pending", error |-> "", value |-> <<>>, pre |-> <<>>]

NewCall(op, pc, input, userId, userRole) ==
  [Idle EXCEPT !.op = op, !.pc = pc, !.input = input, !.userId = userId,
               !.userRole = userRole,
               !.pre = [users |-> users, reports |-> reports, comments |-> comments,
                        attachments |-> attachments]]

\* throw new Error(msg): the call ends with the error.
Fail(c, msg) == [c EXCEPT !.pc = "done", !.outcome = "error", !.error = msg]
\* return v
Ok(c, v) == [c EXCEPT !.pc = "done", !.outcome = "ok", !.value = v]

\* Bun.password.hash(password): a salted digest, a text that differs from
\* the password and from the digest made with another salt.
Salts == {"s", "t"}
Hash(password, salt) == <<"$", salt>> \o password

PasswordP == <<"p">>
PasswordQ == <<"q">>

UserRow(id, username, role) ==
  [id |-> id, username |-> username, email |-> <<username, "@">>,
   password_hash |-> Hash(PasswordP, "s"), full_name |-> "n", role |-> role,
   created_at |-> 0, updated_at |-> 0]

InitUsers ==
  { UserRow(1, "staff1", "STAFF"),
    UserRow(2, "staff2", "STAFF"),
    UserRow(3, "pimpinan", "PIMPINAN"),
    UserRow(4, "admin", "ADMIN") }

\* Caller ids handed to the handlers; 5 is the id of no user.
CallerIds == 1..5

Init ==
  /\ users = InitUsers
  /\ nextUserId = 5
  /\ blobs = {}
  /\ reports = {}
  /\ comments = {}
  /\ attachments = {}
  /\ nextAttachmentId = 1
  /\ nextReportId = 1
  /\ nextCommentId = 1
  /\ clock = 0
  /\ calls = [p \in Procs |-> Idle]

\* Time passes.
Tick ==
  /\ clock < MaxClock
  /\ clock' = clock + 1
  /\ UNCHANGED <<users, nextUserId, blobs, attachments, nextAttachmentId, reports, comments, nextReportId, nextCommentId, calls>>

\* The response of a finished call is delivered; the slot is free again.
Return(p) ==
  /\ calls[p].pc = "done"
  /\ calls' = [calls EXCEPT ![p] = Idle]
  /\ UNCHANGED <<users, nextUserId, blobs, attachments, nextAttachmentId, reports, comments, nextReportId, nextCommentId, clock>>

(***************************************************************************)
(* createReport                                                            *)
(***************************************************************************)
CreateInputs ==
  { [title |-> t, activity_date |-> d, start_time |-> "09:00", end_time |-> "12:00",
     description |-> DescD, location |-> LocL, participants |-> PartP] @@ s :
      t \in {TitleA}, d \in {1}, s \in Opt("status", Statuses) }

\* Variant: another default status.
CreateStatusDefaultSubmitted(input) ==
  IF Has(input, "status") THEN input.status ELSE "SUBMITTED"

\* status: input.status || 'DRAFT'
CreateStatus(input) == IF Has(input, "status") THEN input.status ELSE "DRAFT"

InvokeCreateReport(p) ==
  /\ calls[p].op = "idle"
  /\ nextReportId <= MaxReports
  /\ \E input \in CreateInputs, userId \in CallerIds :
       calls' = [calls EXCEPT ![p] = NewCall("createReport", "selectUser", input, userId, "")]
  /\ UNCHANGED <<users, nextUserId, blobs, attachments, nextAttachmentId, reports, comments, nextReportId, nextCommentId, clock>>

\* Variant: the creator is not looked up.
CreateSelectUserUnchecked(p) ==
  /\ calls[p].op = "createReport" /\ calls[p].pc = "selectUser"
  /\ calls' = [calls EXCEPT ![p] = [@ EXCEPT !.pc = "insert"]]
  /\ UNCHANGED <<users, nextUserId, blobs, attachments, nextAttachmentId, reports, comments, nextReportId, nextCommentId, clock>>

CreateSelectUser(p) ==
  /\ calls[p].op = "createReport" /\ calls[p].pc = "selectUser"
  /\ LET userExists == SelectById(users, calls[p].userId) IN
       calls' = [calls EXCEPT ![p] =
                   IF Len(userExists) = 0
                     THEN Fail(@, "User with ID not found")
                     ELSE [@ EXCEPT !.pc = "insert", !.user = userExists]]
  /\ UNCHANGED <<users, nextUserId, blobs, attachments, nextAttachmentId, reports, comments, nextReportId, nextCommentId, clock>>

CreateInsert(p) ==
  /\ calls[p].op = "createReport" /\ calls[p].pc = "insert"
  /\ LET input == calls[p].input
         row == [id |-> nextReportId,
                 title |-> input.title,
                 activity_date |-> input.activity_date,
                 start_time |-> input.start_time,
                 end_time |-> input.end_time,
                 description |-> input.description,
                 location |-> input.location,
                 participants |-> input.participants,
                 status |-> CreateStatus(input),
                 created_by |-> calls[p].userId,
                 created_at |-> clock,
                 updated_at |-> clock]
     IN /\ reports' = reports \cup {row}
        /\ nextReportId' = nextReportId + 1
        /\ calls' = [calls EXCEPT ![p] = Ok(@, <<row>>)]
  /\ UNCHANGED <<users, nextUserId, blobs, attachments, nextAttachmentId, comments, nextCommentId, clock>>

(***************************************************************************)
(* updateReport                                                            *)
(***************************************************************************)
ReportIds == 1..(MaxReports + 1)

UpdateInputs ==
  { [id |-> i] @@ t @@ s :
      i \in ReportIds, t \in Opt("title", {TitleB}), s \in Opt("status", Statuses) }

\* The fields updateReport copies from the input when they are not undefined.
PatchFields ==
  {"title", "activity_date", "start_time", "end_time", "description", "location",
   "participants", "status"}

\* Variant: a field absent from the input falls back to the status default.
ApplyPatchResetting(row, input, now) ==
  [f \in DOMAIN row |->
     IF f = "updated_at" THEN now
     ELSE IF f \in PatchFields /\ Has(input, f) THEN input[f]
     ELSE IF f = "status" THEN "DRAFT"
     ELSE row[f]]

\* Variant: the update hands the report over to the first user.
ApplyPatchReassigning(row, input, now) ==
  [f \in DOMAIN row |->
     IF f = "updated_at" THEN now
     ELSE IF f \in PatchFields /\ Has(input, f) THEN input[f]
     ELSE IF f = "created_by" THEN 1
     ELSE row[f]]

\* updateData: updated_at: new Date(), plus every provided field.
ApplyPatch(row, input, now) ==
  [f \in DOMAIN row |->
     IF f = "updated_at" THEN now
     ELSE IF f \in PatchFields /\ Has(input, f) THEN input[f]
     ELSE row[f]]

\* Variant: staff may update their own reports in any status.
UpdateDeniedOwnerOnly(user, existingReport, userId) ==
  IF user.role = "STAFF" /\ existingReport.created_by # userId
    THEN "Staff users can only update their own reports"
    ELSE ""

\* Variant: decided reports are closed to every role.
UpdateDeniedWhenDecided(user, existingReport, userId) ==
  IF user.role = "STAFF"
    THEN IF existingReport.created_by # userId
           THEN "Staff users can only update their own reports"
         ELSE IF existingReport.status # "DRAFT"
           THEN "Staff users can only update reports in DRAFT status"
         ELSE ""
    ELSE IF existingReport.status \in ReviewStatuses
           THEN "Decided reports cannot be updated"
           ELSE ""

\* The permission check of updateReport: the error thrown, or "" when allowed.
UpdateDenied(user, existingReport, userId) ==
  IF user.role = "STAFF"
    THEN IF existingReport.created_by # userId
           THEN "Staff users can only update their own reports"
         ELSE IF existingReport.status # "DRAFT"
           THEN "Staff users can only update reports in DRAFT status"
         ELSE ""
    ELSE ""

InvokeUpdateReport(p) ==
  /\ calls[p].op = "idle"
  /\ \E input \in UpdateInputs, userId \in CallerIds :
       calls' = [calls EXCEPT ![p] = NewCall("updateReport", "selectUser", input, userId, "")]
  /\ UNCHANGED <<users, nextUserId, blobs, attachments, nextAttachmentId, reports, comments, nextReportId, nextCommentId, clock>>

UpdateSelectUser(p) ==
  /\ calls[p].op = "updateReport" /\ calls[p].pc = "selectUser"
  /\ LET userResult == SelectById(users, calls[p].userId) IN
       calls' = [calls EXCEPT ![p] =
                   IF Len(userResult) = 0
                     THEN Fail(@, "User not found")
                     ELSE [@ EXCEPT !.pc = "selectReport", !.user = userResult]]
  /\ UNCHANGED <<users, nextUserId, blobs, attachments, nextAttachmentId, reports, comments, nextReportId, nextCommentId, clock>>

UpdateSelectReport(p) ==
  /\ calls[p].op = "updateReport" /\ calls[p].pc = "selectReport"
  /\ LET existingReportResult == SelectById(reports, calls[p].input.id) IN
       calls' = [calls EXCEPT ![p] =
                   IF Len(existingReportResult) = 0
                     THEN Fail(@, "Report not found")
                   ELSE IF UpdateDenied(@.user[1], existingReportResult[1], @.userId) # ""
                     THEN Fail(@, UpdateDenied(@.user[1], existingReportResult[1], @.userId))
                   ELSE [@ EXCEPT !.pc = "update"]]
  /\ UNCHANGED <<users, nextUserId, blobs, attachments, nextAttachmentId, reports, comments, nextReportId, nextCommentId, clock>>

\* db.update(reportsTable).set(updateData).where(eq(id, input.id)).returning()
UpdateWrite(p) ==
  /\ calls[p].op = "updateReport" /\ calls[p].pc = "update"
  /\ LET input == calls[p].input
         hit == {r \in reports : r.id = input.id}
         new == {ApplyPatch(r, input, clock) : r \in hit}
         result == SelectById(new, input.id)
     IN /\ reports' = (reports \ hit) \cup new
        /\ calls' = [calls EXCEPT ![p] =
                       IF Len(result) = 0
                         THEN Fail(@, "Failed to update report")
                         ELSE Ok(@, <<result[1]>>)]
  /\ UNCHANGED <<users, nextUserId, blobs, attachments, nextAttachmentId, comments, nextReportId, nextCommentId, clock>>

(***************************************************************************)
(* reviewReport                                                            *)
(***************************************************************************)
Space == " "
CommentBlank == <<Space>>
CommentOk == <<Space, "k", Space>>

RECURSIVE TrimStart(_)
TrimStart(s) == IF s # <<>> /\ Head(s) = Space THEN TrimStart(Tail(s)) ELSE s

RECURSIVE TrimEnd(_)
TrimEnd(s) ==
  IF s # <<>> /\ s[Len(s)] = Space THEN TrimEnd(SubSeq(s, 1, Len(s) - 1)) ELSE s

\* Variant: leading whitespace only.
TrimStartOnly(s) == TrimStart(s)

\* String.prototype.trim()
Trim(s) == TrimEnd(TrimStart(s))

ReviewInputs ==
  { [report_id |-> i, status |-> st] @@ c :
      i \in ReportIds, st \in ReviewStatuses,
      c \in Opt("comment", {<<>>, CommentBlank, CommentOk}) }

\* Variant: every role may review.
CanReviewAnyRole(role) == role \in Roles

\* Variant: drafts are reviewable too.
ReviewableOrDraft(status) == status \in {"SUBMITTED", "DRAFT"}

\* ['PIMPINAN', 'ADMIN'].includes(user[0].role)
CanReview(role) == role \in {"PIMPINAN", "ADMIN"}

\* existingReport[0].status !== 'SUBMITTED' throws
Reviewable(status) == status = "SUBMITTED"

\* input.comment && input.comment.trim().length > 0
RecordsComment(input) ==
  /\ Has(input, "comment")
  /\ input.comment # <<>>
  /\ Len(Trim(input.comment)) > 0

InvokeReviewReport(p) ==
  /\ calls[p].op = "idle"
  /\ \E input \in ReviewInputs, userId \in CallerIds :
       /\ RecordsComment(input) =>
            nextCommentId + Cardinality({q \in Procs : calls[q].op = "reviewReport"
                                           /\ RecordsComment(calls[q].input)})
              <= MaxComments
       /\ calls' = [calls EXCEPT ![p] = NewCall("reviewReport", "selectUser", input, userId, "")]
  /\ UNCHANGED <<users, nextUserId, blobs, attachments, nextAttachmentId, reports, comments, nextReportId, nextCommentId, clock>>

\* Variant: the report is looked up before the role is checked.
ReviewSelectUserReportFirst(p) ==
  /\ calls[p].op = "reviewReport" /\ calls[p].pc = "selectUser"
  /\ LET user == SelectById(users, calls[p].userId)
         existingReport == SelectById(reports, calls[p].input.report_id)
     IN
       calls' = [calls EXCEPT ![p] =
                   IF Len(user) = 0
                     THEN Fail(@, "User not found")
                   ELSE IF Len(existingReport) = 0
                     THEN Fail(@, "Report not found")
                   ELSE IF ~CanReview(user[1].role)
                     THEN Fail(@, "Insufficient permissions to review reports")
                   ELSE [@ EXCEPT !.pc = "selectReport", !.user = user]]
  /\ UNCHANGED <<users, nextUserId, blobs, attachments, nextAttachmentId, reports, comments, nextReportId, nextCommentId, clock>>

ReviewSelectUser(p) ==
  /\ calls[p].op = "reviewReport" /\ calls[p].pc = "selectUser"
  /\ LET user == SelectById(users, calls[p].userId) IN
       calls' = [calls EXCEPT ![p] =
                   IF Len(user) = 0
                     THEN Fail(@, "User not found")
                   ELSE IF ~CanReview(user[1].role)
                     THEN Fail(@, "Insufficient permissions to review reports")
                   ELSE [@ EXCEPT !.pc = "selectReport", !.user = user]]
  /\ UNCHANGED <<users, nextUserId, blobs, attachments, nextAttachmentId, reports, comments, nextReportId, nextCommentId, clock>>

ReviewSelectReport(p) ==
  /\ calls[p].op = "reviewReport" /\ calls[p].pc = "selectReport"
  /\ LET existingReport == SelectById(reports, calls[p].input.report_id) IN
       calls' = [calls EXCEPT ![p] =
                   IF Len(existingReport) = 0
                     THEN Fail(@, "Report not found")
                   ELSE IF ~Reviewable(existingReport[1].status)
                     THEN Fail(@, "Only submitted reports can be reviewed")
                   ELSE [@ EXCEPT !.pc = "update"]]
  /\ UNCHANGED <<users, nextUserId, blobs, attachments, nextAttachmentId, reports, comments, nextReportId, nextCommentId, clock>>

\* db.update(reportsTable).set({status, updated_at}).where(eq(id, report_id)).returning()
\* With no comment to record the handler returns updatedReports[0], which is
\* undefined (here <<>>) when the update matched no row.
ReviewUpdate(p) ==
  /\ calls[p].op = "reviewReport" /\ calls[p].pc = "update"
  /\ LET input == calls[p].input
         hit == {r \in reports : r.id = input.report_id}
         new == {[r EXCEPT !.status = input.status, !.updated_at = clock] : r \in hit}
         updatedReports == SelectById(new, input.report_id)
     IN /\ reports' = (reports \ hit) \cup new
        /\ calls' = [calls EXCEPT ![p] =
                       IF RecordsComment(input)
                         THEN [@ EXCEPT !.pc = "insertComment", !.value = updatedReports]
                         ELSE Ok(@, updatedReports)]
  /\ UNCHANGED <<users, nextUserId, blobs, attachments, nextAttachmentId, comments, nextReportId, nextCommentId, clock>>

\* db.insert(reportCommentsTable).values({report_id, user_id, comment: trim});
\* report_id references reportsTable.id: the insert throws when the report is gone.
ReviewInsertComment(p) ==
  /\ calls[p].op = "reviewReport" /\ calls[p].pc = "insertComment"
  /\ LET input == calls[p].input IN
       IF ForeignKeyHolds(reports, input.report_id)
         THEN /\ comments' = comments \cup
                   {[id |-> nextCommentId, report_id |-> input.report_id,
                     user_id |-> calls[p].userId, comment |-> Trim(input.comment),
                     created_at |-> clock]}
              /\ nextCommentId' = nextCommentId + 1
              /\ calls' = [calls EXCEPT ![p] = Ok(@, @.value)]
         ELSE /\ calls' = [calls EXCEPT ![p] = Fail(@, "foreign key violation")]
              /\ UNCHANGED <<comments, nextCommentId>>
  /\ UNCHANGED <<users, nextUserId, blobs, attachments, nextAttachmentId, reports, nextReportId, clock>>


(***************************************************************************)
(* getReports                                                              *)
(***************************************************************************)
\* Postgres lower(): ILIKE compares case-insensitively.
Lower(c) == IF c = "A" THEN "a" ELSE IF c = "B" THEN "b" ELSE c

\* s LIKE p, case-insensitively: % matches any run of characters and _ any
\* single character.
RECURSIVE ILike(_, _)
ILike(s, p) ==
  IF p = <<>> THEN s = <<>>
  ELSE IF Head(p) = "%"
    THEN ILike(s, Tail(p)) \/ (s # <<>> /\ ILike(Tail(s), p))
  ELSE IF s = <<>> THEN FALSE
  ELSE /\ (Head(p) = "_" \/ Lower(Head(p)) = Lower(Head(s)))
       /\ ILike(Tail(s), Tail(p))

\* `%${input.search}%`
SearchTerm(search) == <<"%">> \o search \o <<"%">>

\* The callers of getReports: the user id and the role string passed for it.
ListCallers ==
  { [userId |-> 1, userRole |-> "STAFF"], [userId |-> 2, userRole |-> "STAFF"],
    [userId |-> 3, userRole |-> "PIMPINAN"], [userId |-> 4, userRole |-> "ADMIN"] }

ListInputs ==
  { [limit |-> l, offset |-> o] @@ st @@ cb @@ df @@ dt @@ se :
      l \in {1, 2}, o \in {0, 1},
      st \in Opt("status", {"SUBMITTED"}),
      cb \in Opt("created_by", {0, 2}),
      df \in Opt("activity_date_from", {2}),
      dt \in Opt("activity_date_to", {1}),
      se \in Opt("search", {TitleA}) }

\* if (userRole === 'STAFF') conditions.push(eq(created_by, userId))
RoleCondition(userId, userRole, r) ==
  userRole = "STAFF" => r.created_by = userId

\* if (input.status) conditions.push(eq(status, input.status))
StatusCondition(input, r) ==
  Has(input, "status") => r.status = input.status

\* Variant: the creator filter is applied for every role.
CreatedByConditionAnyRole(input, userRole, r) ==
  (Has(input, "created_by") /\ input.created_by # 0)
    => r.created_by = input.created_by

\* if (input.created_by) { if (userRole !== 'STAFF') conditions.push(...) }
\* A created_by of 0 is falsy.
CreatedByCondition(input, userRole, r) ==
  (Has(input, "created_by") /\ input.created_by # 0 /\ userRole # "STAFF")
    => r.created_by = input.created_by

\* if (input.activity_date_from) conditions.push(gte(activity_date, from))
DateFromCondition(input, r) ==
  Has(input, "activity_date_from") => r.activity_date >= input.activity_date_from

\* if (input.activity_date_to) conditions.push(lte(activity_date, to))
DateToCondition(input, r) ==
  Has(input, "activity_date_to") => r.activity_date <= input.activity_date_to

\* if (input.search) conditions.push(or(ilike(title), ilike(description), ilike(location)))
\* An empty search string is falsy.
SearchCondition(input, r) ==
  (Has(input, "search") /\ input.search # <<>>)
    => \/ ILike(r.title, SearchTerm(input.search))
       \/ ILike(r.description, SearchTerm(input.search))
       \/ ILike(r.location, SearchTerm(input.search))

\* whereClause: and(...conditions)
WhereClause(input, userId, userRole, r) ==
  /\ RoleCondition(userId, userRole, r)
  /\ StatusCondition(input, r)
  /\ CreatedByCondition(input, userRole, r)
  /\ DateFromCondition(input, r)
  /\ DateToCondition(input, r)
  /\ SearchCondition(input, r)

Matching(input, userId, userRole) ==
  {r \in reports : WhereClause(input, userId, userRole, r)}

\* orderBy(desc(created_at)): every order of the rows with created_at
\* descending; rows with equal created_at come in any order.
Orderings(S) ==
  { f \in [1..Cardinality(S) -> S] :
      /\ \A i, j \in 1..Cardinality(S) : i # j => f[i] # f[j]
      /\ \A i, j \in 1..Cardinality(S) : i < j => f[i].created_at >= f[j].created_at }

\* Variant: the page always starts at the first row.
SliceIgnoringOffset(seq, limit, offset) ==
  [i \in 1..Min(limit, Len(seq)) |-> seq[i]]

\* .limit(limit).offset(offset)
Slice(seq, limit, offset) ==
  [i \in 1..Max(0, Min(limit, Len(seq) - offset)) |-> seq[offset + i]]

\* Promise.all resolved: return { reports, total }
FinishQueries(c) ==
  IF c.got = {"page", "count"}
    THEN Ok(c, [reports |-> c.page, total |-> c.total])
    ELSE c

InvokeGetReports(p) ==
  /\ calls[p].op = "idle"
  /\ \E input \in ListInputs, caller \in ListCallers :
       calls' = [calls EXCEPT ![p] =
                   NewCall("getReports", "queries", input, caller.userId, caller.userRole)]
  /\ UNCHANGED <<users, nextUserId, blobs, attachments, nextAttachmentId, reports, comments, nextReportId, nextCommentId, clock>>

\* paginatedQuery.execute()
GetReportsPage(p) ==
  /\ calls[p].op = "getReports" /\ calls[p].pc = "queries"
  /\ "page" \notin calls[p].got
  /\ LET c == calls[p] IN
       \E ord \in Orderings(Matching(c.input, c.userId, c.userRole)) :
         calls' = [calls EXCEPT ![p] =
                     FinishQueries([c EXCEPT
                       !.page = Slice(ord, c.input.limit, c.input.offset),
                       !.got = c.got \cup {"page"}])]
  /\ UNCHANGED <<users, nextUserId, blobs, attachments, nextAttachmentId, reports, comments, nextReportId, nextCommentId, clock>>

\* finalCountQuery.execute(); total = totalResult[0]?.count || 0
GetReportsCount(p) ==
  /\ calls[p].op = "getReports" /\ calls[p].pc = "queries"
  /\ "count" \notin calls[p].got
  /\ LET c == calls[p] IN
       calls' = [calls EXCEPT ![p] =
                   FinishQueries([c EXCEPT
                     !.total = Cardinality(Matching(c.input, c.userId, c.userRole)),
                     !.got = c.got \cup {"count"}])]
  /\ UNCHANGED <<users, nextUserId, blobs, attachments, nextAttachmentId, reports, comments, nextReportId, nextCommentId, clock>>

(***************************************************************************)
(* getReportById                                                           *)
(***************************************************************************)
\* The role string a caller hands to the handlers that take userRole.
RoleCallers == [userId : CallerIds, userRole : Roles]

\* Variant: every caller may view every report.
ViewDeniedNever(userRole, report, userId) == FALSE

\* userRole === 'STAFF' && report.created_by !== userId
ViewDenied(userRole, report, userId) ==
  userRole = "STAFF" /\ report.created_by # userId

InvokeGetReportById(p) ==
  /\ calls[p].op = "idle"
  /\ \E reportId \in ReportIds, caller \in RoleCallers :
       calls' = [calls EXCEPT ![p] =
                   NewCall("getReportById", "select", [id |-> reportId],
                           caller.userId, caller.userRole)]
  /\ UNCHANGED <<users, nextUserId, blobs, reports, comments, attachments, nextReportId, nextCommentId,
                 nextAttachmentId, clock>>

\* Variant: the read stamps the row it returns.
GetReportByIdSelectTouching(p) ==
  /\ calls[p].op = "getReportById" /\ calls[p].pc = "select"
  /\ LET results == SelectById(reports, calls[p].input.id)
         touched == [r \in reports |->
                       IF r.id = calls[p].input.id
                         THEN [r EXCEPT !.updated_at = r.updated_at + 1] ELSE r]
     IN
       /\ reports' = {touched[r] : r \in reports}
       /\ calls' = [calls EXCEPT ![p] =
                      IF Len(results) = 0
                        THEN Ok(@, <<>>)
                      ELSE IF ViewDenied(@.userRole, results[1], @.userId)
                        THEN Ok(@, <<>>)
                      ELSE Ok(@, <<touched[results[1]]>>)]
  /\ UNCHANGED <<users, nextUserId, blobs, comments, attachments, nextReportId, nextCommentId,
                 nextAttachmentId, clock>>

\* db.select().from(reportsTable).where(eq(id, reportId)); null is <<>>, a
\* returned report is the one-element sequence holding it.
GetReportByIdSelect(p) ==
  /\ calls[p].op = "getReportById" /\ calls[p].pc = "select"
  /\ LET results == SelectById(reports, calls[p].input.id) IN
       calls' = [calls EXCEPT ![p] =
                   IF Len(results) = 0
                     THEN Ok(@, <<>>)
                   ELSE IF ViewDenied(@.userRole, results[1], @.userId)
                     THEN Ok(@, <<>>)
                   ELSE Ok(@, <<results[1]>>)]
  /\ UNCHANGED <<users, nextUserId, blobs, reports, comments, attachments, nextReportId, nextCommentId,
                 nextAttachmentId, clock>>

(***************************************************************************)
(* deleteReport                                                            *)
(***************************************************************************)
\* Variant: the creator may delete drafts only.
CanDeleteOwnDraftOnly(reportData, userId, userRole) ==
  \/ reportData.created_by = userId /\ reportData.status = "DRAFT"
  \/ userRole = "PIMPINAN"
  \/ userRole = "ADMIN"

\* canDelete = created_by === userId || userRole === 'PIMPINAN' || userRole === 'ADMIN'
CanDelete(reportData, userId, userRole) ==
  \/ reportData.created_by = userId
  \/ userRole = "PIMPINAN"
  \/ userRole = "ADMIN"

\* Variant: the rows that reference the report stay.
CascadeNothing(table, reportId) == table

\* Variant: deleting a report empties the referencing table.
CascadeDeleteAll(table, reportId) == {}

\* references(() => reportsTable.id, { onDelete: 'cascade' }): what is left of
\* a referencing table when the report is deleted.
CascadeDelete(table, reportId) == {x \in table : x.report_id # reportId}

InvokeDeleteReport(p) ==
  /\ calls[p].op = "idle"
  /\ \E reportId \in ReportIds, caller \in RoleCallers :
       calls' = [calls EXCEPT ![p] =
                   NewCall("deleteReport", "select", [id |-> reportId],
                           caller.userId, caller.userRole)]
  /\ UNCHANGED <<users, nextUserId, blobs, reports, comments, attachments, nextReportId, nextCommentId,
                 nextAttachmentId, clock>>

DeleteSelect(p) ==
  /\ calls[p].op = "deleteReport" /\ calls[p].pc = "select"
  /\ LET report == SelectById(reports, calls[p].input.id) IN
       calls' = [calls EXCEPT ![p] =
                   IF Len(report) = 0
                     THEN Ok(@, FALSE)
                   ELSE IF ~CanDelete(report[1], @.userId, @.userRole)
                     THEN Ok(@, FALSE)
                   ELSE [@ EXCEPT !.pc = "delete"]]
  /\ UNCHANGED <<users, nextUserId, blobs, reports, comments, attachments, nextReportId, nextCommentId,
                 nextAttachmentId, clock>>

\* Variant: the delete reports success whatever it removed.
DeleteWriteAlwaysTrue(p) ==
  /\ calls[p].op = "deleteReport" /\ calls[p].pc = "delete"
  /\ LET reportId == calls[p].input.id
         hit == {r \in reports : r.id = reportId}
     IN /\ reports' = reports \ hit
        /\ comments' = IF hit = {} THEN comments ELSE CascadeDelete(comments, reportId)
        /\ attachments' =
             IF hit = {} THEN attachments ELSE CascadeDelete(attachments, reportId)
        /\ calls' = [calls EXCEPT ![p] = Ok(@, TRUE)]
  /\ UNCHANGED <<users, nextUserId, blobs, nextReportId, nextCommentId, nextAttachmentId, clock>>

\* db.delete(reportsTable).where(eq(id, reportId)): one statement that removes
\* the row and, by the cascade, its comments and attachments; the result is
\* (result.rowCount ?? 0) > 0.
DeleteWrite(p) ==
  /\ calls[p].op = "deleteReport" /\ calls[p].pc = "delete"
  /\ LET reportId == calls[p].input.id
         hit == {r \in reports : r.id = reportId}
     IN /\ reports' = reports \ hit
        /\ comments' = IF hit = {} THEN comments ELSE CascadeDelete(comments, reportId)
        /\ attachments' =
             IF hit = {} THEN attachments ELSE CascadeDelete(attachments, reportId)
        /\ calls' = [calls EXCEPT ![p] = Ok(@, Cardinality(hit) > 0)]
  /\ UNCHANGED <<users, nextUserId, blobs, nextReportId, nextCommentId, nextAttachmentId, clock>>

(***************************************************************************)
(* addComment                                                              *)
(***************************************************************************)
AddCommentInputs == [report_id : ReportIds, comment : {CommentOk}]

\* Calls in flight that will insert a comment.
CommentsInFlight ==
  Cardinality({q \in Procs :
    \/ calls[q].op = "addComment"
    \/ calls[q].op = "reviewReport" /\ RecordsComment(calls[q].input)})

InvokeAddComment(p) ==
  /\ calls[p].op = "idle"
  /\ nextCommentId + CommentsInFlight <= MaxComments
  /\ \E input \in AddCommentInputs, userId \in CallerIds :
       calls' = [calls EXCEPT ![p] = NewCall("addComment", "select", input, userId, "")]
  /\ UNCHANGED <<users, nextUserId, blobs, reports, comments, attachments, nextReportId, nextCommentId,
                 nextAttachmentId, clock>>

AddCommentSelect(p) ==
  /\ calls[p].op = "addComment" /\ calls[p].pc = "select"
  /\ LET existingReport == SelectById(reports, calls[p].input.report_id) IN
       calls' = [calls EXCEPT ![p] =
                   IF Len(existingReport) = 0
                     THEN Fail(@, "Report not found")
                     ELSE [@ EXCEPT !.pc = "insert"]]
  /\ UNCHANGED <<users, nextUserId, blobs, reports, comments, attachments, nextReportId, nextCommentId,
                 nextAttachmentId, clock>>

\* db.insert(reportCommentsTable).values({report_id, user_id: userId, comment});
\* report_id references reportsTable.id and user_id references usersTable.id:
\* the insert throws when either row does not exist.
AddCommentInsert(p) ==
  /\ calls[p].op = "addComment" /\ calls[p].pc = "insert"
  /\ LET input == calls[p].input
         row == [id |-> nextCommentId, report_id |-> input.report_id,
                 user_id |-> calls[p].userId, comment |-> input.comment,
                 created_at |-> clock]
     IN IF /\ ForeignKeyHolds(reports, input.report_id)
           /\ ForeignKeyHolds(users, calls[p].userId)
          THEN /\ comments' = comments \cup {row}
               /\ nextCommentId' = nextCommentId + 1
               /\ calls' = [calls EXCEPT ![p] = Ok(@, <<row>>)]
          ELSE /\ calls' = [calls EXCEPT ![p] = Fail(@, "foreign key violation")]
               /\ UNCHANGED <<comments, nextCommentId>>
  /\ UNCHANGED <<users, nextUserId, blobs, reports, attachments, nextReportId, nextAttachmentId, clock>>

(***************************************************************************)
(* uploadAttachment                                                        *)
(***************************************************************************)
UploadInputs ==
  [report_id : ReportIds, filename : {"f"}, original_filename : {"o"},
   file_path : {"/f"}, file_size : {1}, mime_type : {"m"}]

\* Variant: reviewers may attach to any report.
UploadAllowedForReviewers(report, userId) ==
  \/ report.created_by = userId
  \/ \E u \in users : u.id = userId /\ u.role \in {"PIMPINAN", "ADMIN"}

\* report[0].created_by !== userId throws
UploadAllowed(report, userId) == report.created_by = userId

InvokeUploadAttachment(p) ==
  /\ calls[p].op = "idle"
  /\ nextAttachmentId + Cardinality({q \in Procs : calls[q].op = "uploadAttachment"})
       <= MaxAttachments
  /\ \E input \in UploadInputs, userId \in CallerIds :
       calls' = [calls EXCEPT ![p] =
                   NewCall("uploadAttachment", "select", input, userId, "")]
  /\ UNCHANGED <<users, nextUserId, blobs, reports, comments, attachments, nextReportId, nextCommentId,
                 nextAttachmentId, clock>>

UploadSelect(p) ==
  /\ calls[p].op = "uploadAttachment" /\ calls[p].pc = "select"
  /\ LET report == SelectById(reports, calls[p].input.report_id) IN
       calls' = [calls EXCEPT ![p] =
                   IF Len(report) = 0
                     THEN Fail(@, "Report not found")
                   ELSE IF ~UploadAllowed(report[1], @.userId)
                     THEN Fail(@, "Permission denied: Only report creators can add attachments")
                   ELSE [@ EXCEPT !.pc = "insert"]]
  /\ UNCHANGED <<users, nextUserId, blobs, reports, comments, attachments, nextReportId, nextCommentId,
                 nextAttachmentId, clock>>

\* db.insert(reportAttachmentsTable).values({...}); report_id references
\* reportsTable.id: the insert throws when the report is gone.
UploadInsert(p) ==
  /\ calls[p].op = "uploadAttachment" /\ calls[p].pc = "insert"
  /\ LET input == calls[p].input
         row == [id |-> nextAttachmentId, report_id |-> input.report_id,
                 filename |-> input.filename,
                 original_filename |-> input.original_filename,
                 file_path |-> input.file_path, file_size |-> input.file_size,
                 mime_type |-> input.mime_type, uploaded_at |-> clock]
     IN IF ForeignKeyHolds(reports, input.report_id)
          THEN /\ attachments' = attachments \cup {row}
               /\ nextAttachmentId' = nextAttachmentId + 1
               /\ calls' = [calls EXCEPT ![p] = Ok(@, <<row>>)]
          ELSE /\ calls' = [calls EXCEPT ![p] = Fail(@, "foreign key violation")]
               /\ UNCHANGED <<attachments, nextAttachmentId>>
  /\ UNCHANGED <<users, nextUserId, blobs, reports, comments, nextReportId, nextCommentId, clock>>

(***************************************************************************)
(* deleteAttachment                                                        *)
(***************************************************************************)
AttachmentIds == 1..(MaxAttachments + 1)

\* Variant: only the creator of the parent report may delete.
CanDeleteAttachmentCreatorOnly(attachment, userId, userRole) ==
  attachment.created_by = userId

\* canDelete = created_by === userId || userRole === 'ADMIN' || userRole === 'PIMPINAN'
CanDeleteAttachment(attachment, userId, userRole) ==
  \/ attachment.created_by = userId
  \/ userRole = "ADMIN"
  \/ userRole = "PIMPINAN"

\* select {id, report_id, file_path, created_by} from reportAttachmentsTable
\* innerJoin reportsTable where attachment id = attachmentId
AttachmentWithCreator(attachmentId) ==
  UNION { { [id |-> a.id, report_id |-> a.report_id, file_path |-> a.file_path,
             created_by |-> r.created_by] :
              r \in {y \in reports : y.id = a.report_id} } :
          a \in {x \in attachments : x.id = attachmentId} }

InvokeDeleteAttachment(p) ==
  /\ calls[p].op = "idle"
  /\ \E attachmentId \in AttachmentIds, caller \in RoleCallers :
       calls' = [calls EXCEPT ![p] =
                   NewCall("deleteAttachment", "select", [id |-> attachmentId],
                           caller.userId, caller.userRole)]
  /\ UNCHANGED <<users, nextUserId, reports, comments, attachments, nextReportId, nextCommentId,
                 nextAttachmentId, blobs, clock>>

DeleteAttachmentSelect(p) ==
  /\ calls[p].op = "deleteAttachment" /\ calls[p].pc = "select"
  /\ LET c == calls[p]
         attachmentResults == AttachmentWithCreator(c.input.id)
     IN calls' = [calls EXCEPT ![p] =
                    IF attachmentResults = {}
                      THEN Ok(c, FALSE)
                    ELSE LET attachment == CHOOSE a \in attachmentResults : TRUE IN
                      IF ~CanDeleteAttachment(attachment, c.userId, c.userRole)
                        THEN Ok(c, FALSE)
                        ELSE [c EXCEPT !.pc = "delete", !.attachment = <<attachment>>]]
  /\ UNCHANGED <<users, nextUserId, reports, comments, attachments, nextReportId, nextCommentId,
                 nextAttachmentId, blobs, clock>>

\* db.delete(reportAttachmentsTable).where(eq(id, attachmentId)); with no row
\* deleted the handler returns false.
DeleteAttachmentRow(p) ==
  /\ calls[p].op = "deleteAttachment" /\ calls[p].pc = "delete"
  /\ LET hit == {a \in attachments : a.id = calls[p].input.id} IN
       /\ attachments' = attachments \ hit
       /\ calls' = [calls EXCEPT ![p] =
                      IF Cardinality(hit) > 0
                        THEN [@ EXCEPT !.pc = "unlink"]
                        ELSE Ok(@, FALSE)]
  /\ UNCHANGED <<users, nextUserId, reports, comments, nextReportId, nextCommentId,
                 nextAttachmentId, blobs, clock>>

\* Variant: a failing unlink fails the call.
DeleteAttachmentUnlinkStrict(p) ==
  /\ calls[p].op = "deleteAttachment" /\ calls[p].pc = "unlink"
  /\ LET path == calls[p].attachment[1].file_path IN
       \/ /\ path \notin blobs
          /\ blobs' = blobs
          /\ calls' = [calls EXCEPT ![p] = Ok(@, TRUE)]
       \/ /\ path \in blobs
          /\ blobs' = blobs \ {path}
          /\ calls' = [calls EXCEPT ![p] = Ok(@, TRUE)]
       \/ /\ path \in blobs
          /\ blobs' = blobs
          /\ calls' = [calls EXCEPT ![p] = Fail(@, "unlink failed")]
  /\ UNCHANGED <<users, nextUserId, reports, comments, attachments, nextReportId, nextCommentId,
                 nextAttachmentId, clock>>

\* if (existsSync(file_path)) await unlink(file_path), inside try/catch: the
\* file is absent, or it is removed, or unlink throws and the error is only
\* logged; the handler returns true in all three cases.
DeleteAttachmentUnlink(p) ==
  /\ calls[p].op = "deleteAttachment" /\ calls[p].pc = "unlink"
  /\ LET path == calls[p].attachment[1].file_path IN
       \/ /\ path \notin blobs
          /\ blobs' = blobs
       \/ /\ path \in blobs
          /\ blobs' = blobs \ {path}
       \/ /\ path \in blobs
          /\ blobs' = blobs
  /\ calls' = [calls EXCEPT ![p] = Ok(@, TRUE)]
  /\ UNCHANGED <<users, nextUserId, reports, comments, attachments, nextReportId, nextCommentId,
                 nextAttachmentId, clock>>

(***************************************************************************)
(* getReportComments, getReportAttachments                                 *)
(***************************************************************************)
\* orderBy(column): every order of the rows with the column ascending; rows
\* with equal values come in any order.
AscendingBy(S, column) ==
  { f \in [1..Cardinality(S) -> S] :
      /\ \A i, j \in 1..Cardinality(S) : i # j => f[i] # f[j]
      /\ \A i, j \in 1..Cardinality(S) : i < j => f[i][column] <= f[j][column] }

\* Variant: the creator condition is never added.
CommentsReportConditionOpen(reportId, userId, userRole, r) == r.id = reportId

\* conditions: eq(id, reportId), and for STAFF eq(created_by, userId)
CommentsReportCondition(reportId, userId, userRole, r) ==
  /\ r.id = reportId
  /\ userRole = "STAFF" => r.created_by = userId

InvokeGetReportComments(p) ==
  /\ calls[p].op = "idle"
  /\ \E reportId \in ReportIds, caller \in ListCallers :
       calls' = [calls EXCEPT ![p] =
                   NewCall("getReportComments", "selectReport", [id |-> reportId],
                           caller.userId, caller.userRole)]
  /\ UNCHANGED <<users, nextUserId, blobs, reports, comments, attachments, nextReportId, nextCommentId,
                 nextAttachmentId, clock>>

GetCommentsSelectReport(p) ==
  /\ calls[p].op = "getReportComments" /\ calls[p].pc = "selectReport"
  /\ LET c == calls[p]
         found == {r \in reports : CommentsReportCondition(c.input.id, c.userId, c.userRole, r)}
     IN calls' = [calls EXCEPT ![p] =
                    IF found = {}
                      THEN Fail(c, "Report not found or access denied")
                      ELSE [c EXCEPT !.pc = "selectRows"]]
  /\ UNCHANGED <<users, nextUserId, blobs, reports, comments, attachments, nextReportId, nextCommentId,
                 nextAttachmentId, clock>>

\* select from reportCommentsTable innerJoin usersTable where report_id =
\* reportId, orderBy(created_at); the rows are mapped to the comment fields.
GetCommentsSelectRows(p) ==
  /\ calls[p].op = "getReportComments" /\ calls[p].pc = "selectRows"
  /\ LET c == calls[p]
         joined == {k \in comments :
                      k.report_id = c.input.id /\ \E u \in users : u.id = k.user_id}
     IN \E results \in AscendingBy(joined, "created_at") :
          calls' = [calls EXCEPT ![p] = Ok(c, results)]
  /\ UNCHANGED <<users, nextUserId, blobs, reports, comments, attachments, nextReportId, nextCommentId,
                 nextAttachmentId, clock>>

InvokeGetReportAttachments(p) ==
  /\ calls[p].op = "idle"
  /\ \E reportId \in ReportIds, caller \in ListCallers :
       calls' = [calls EXCEPT ![p] =
                   NewCall("getReportAttachments", "selectReport", [id |-> reportId],
                           caller.userId, caller.userRole)]
  /\ UNCHANGED <<users, nextUserId, blobs, reports, comments, attachments, nextReportId, nextCommentId,
                 nextAttachmentId, clock>>

GetAttachmentsSelectReport(p) ==
  /\ calls[p].op = "getReportAttachments" /\ calls[p].pc = "selectReport"
  /\ LET c == calls[p]
         report == SelectById(reports, c.input.id)
     IN calls' = [calls EXCEPT ![p] =
                    IF Len(report) = 0
                      THEN Fail(c, "Report not found")
                    ELSE IF ViewDenied(c.userRole, report[1], c.userId)
                      THEN Fail(c, "Access denied: You can only view attachments for your own reports")
                    ELSE [c EXCEPT !.pc = "selectRows"]]
  /\ UNCHANGED <<users, nextUserId, blobs, reports, comments, attachments, nextReportId, nextCommentId,
                 nextAttachmentId, clock>>

GetAttachmentsSelectRows(p) ==
  /\ calls[p].op = "getReportAttachments" /\ calls[p].pc = "selectRows"
  /\ LET c == calls[p]
         rows == {a \in attachments : a.report_id = c.input.id}
     IN \E results \in AscendingBy(rows, "uploaded_at") :
          calls' = [calls EXCEPT ![p] = Ok(c, results)]
  /\ UNCHANGED <<users, nextUserId, blobs, reports, comments, attachments, nextReportId, nextCommentId,
                 nextAttachmentId, clock>>

(***************************************************************************)
(* getDashboardStats                                                       *)
(***************************************************************************)
\* .limit(10) of the recent reports query
RecentLimit == 10

\* The five count queries of Promise.all: all reports, and one per status.
CountKinds == {"total"} \cup Statuses

\* Variant: no scoping by creator.
DashboardScopeAll(userId, userRole, r) == TRUE

\* conditions: for STAFF eq(reportsTable.created_by, userId)
DashboardScope(userId, userRole, r) ==
  userRole = "STAFF" => r.created_by = userId

\* The where clause of the count query of a kind.
CountCondition(kind, userId, userRole, r) ==
  /\ DashboardScope(userId, userRole, r)
  /\ kind # "total" => r.status = kind

\* Variant: the recent reports oldest first.
RECURSIVE OldestFirst(_, _)
OldestFirst(S, limit) ==
  IF S = {} \/ limit = 0
    THEN {<<>>}
    ELSE UNION { { <<r>> \o t : t \in OldestFirst(S \ {r}, limit - 1) } :
                 r \in {x \in S : \A y \in S : x.created_at <= y.created_at} }

\* orderBy(desc(created_at)).limit(limit): the first rows of every order of S
\* with created_at descending; rows with equal created_at come in any order.
RECURSIVE NewestFirst(_, _)
NewestFirst(S, limit) ==
  IF S = {} \/ limit = 0
    THEN {<<>>}
    ELSE UNION { { <<r>> \o t : t \in NewestFirst(S \ {r}, limit - 1) } :
                 r \in {x \in S : \A y \in S : x.created_at >= y.created_at} }

InvokeGetDashboardStats(p) ==
  /\ calls[p].op = "idle"
  /\ \E caller \in ListCallers :
       calls' = [calls EXCEPT ![p] =
                   NewCall("getDashboardStats", "counts", <<>>, caller.userId, caller.userRole)]
  /\ UNCHANGED <<users, nextUserId, reports, comments, attachments, nextReportId, nextCommentId,
                 nextAttachmentId, blobs, clock>>

\* One of the count queries of Promise.all executes; with all five done the
\* handler goes on to the recent reports query.
DashboardCount(p) ==
  /\ calls[p].op = "getDashboardStats" /\ calls[p].pc = "counts"
  /\ LET c == calls[p] IN
       \E kind \in CountKinds \ c.got :
         calls' = [calls EXCEPT ![p] =
                     [c EXCEPT
                        !.counts = (kind :> Cardinality({r \in reports :
                                      CountCondition(kind, c.userId, c.userRole, r)})) @@ c.counts,
                        !.got = c.got \cup {kind},
                        !.pc = IF c.got \cup {kind} = CountKinds THEN "recent" ELSE "counts"]]
  /\ UNCHANGED <<users, nextUserId, reports, comments, attachments, nextReportId, nextCommentId,
                 nextAttachmentId, blobs, clock>>

DashboardRecent(p) ==
  /\ calls[p].op = "getDashboardStats" /\ calls[p].pc = "recent"
  /\ LET c == calls[p]
         scoped == {r \in reports : DashboardScope(c.userId, c.userRole, r)}
     IN \E recentResults \in NewestFirst(scoped, RecentLimit) :
          calls' = [calls EXCEPT ![p] =
                      Ok(c, [total_reports |-> c.counts["total"],
                             draft_reports |-> c.counts["DRAFT"],
                             submitted_reports |-> c.counts["SUBMITTED"],
                             approved_reports |-> c.counts["APPROVED"],
                             rejected_reports |-> c.counts["REJECTED"],
                             recent_reports |-> recentResults])]
  /\ UNCHANGED <<users, nextUserId, reports, comments, attachments, nextReportId, nextCommentId,
                 nextAttachmentId, blobs, clock>>

(***************************************************************************)
(* registerUser, updateUserProfile, loginUser                              *)
(***************************************************************************)
Usernames == {"staff1", "u5", "u6"}
Emails == {<<u, "@">> : u \in Usernames}

RegisterInputs ==
  [username : Usernames, email : Emails, password : {PasswordP, PasswordQ},
   full_name : {"n"}, role : {"STAFF"}]

\* Variant: the table has no unique constraints.
UniqueViolationNever(table, row) == FALSE

\* username ... .unique(), email ... .unique(): another row of the table
\* holds the username or the email of the row written.
UniqueViolation(table, row) ==
  \E u \in table :
    /\ u.id # row.id
    /\ (u.username = row.username \/ u.email = row.email)

InvokeRegisterUser(p) ==
  /\ calls[p].op = "idle"
  /\ nextUserId <= MaxUserId
  /\ \E input \in RegisterInputs :
       calls' = [calls EXCEPT ![p] = NewCall("registerUser", "insert", input, 0, "")]
  /\ UNCHANGED <<users, nextUserId, reports, comments, attachments, nextReportId, nextCommentId,
                 nextAttachmentId, blobs, clock>>

\* Bun.password.hash(input.password); db.insert(usersTable).values({...})
\* .returning().  The serial is taken before the constraints are checked.
RegisterInsert(p) ==
  /\ calls[p].op = "registerUser" /\ calls[p].pc = "insert"
  /\ \E salt \in Salts :
       LET c == calls[p]
           user == [id |-> nextUserId, username |-> c.input.username,
                    email |-> c.input.email,
                    password_hash |-> Hash(c.input.password, salt),
                    full_name |-> c.input.full_name, role |-> c.input.role,
                    created_at |-> clock, updated_at |-> clock]
       IN
       /\ nextUserId' = nextUserId + 1
       /\ IF UniqueViolation(users, user)
            THEN /\ calls' = [calls EXCEPT ![p] =
                                Fail(c, "duplicate key value violates unique constraint")]
                 /\ UNCHANGED users
            ELSE /\ users' = users \cup {user}
                 /\ calls' = [calls EXCEPT ![p] = Ok(c, user)]
  /\ UNCHANGED <<reports, comments, attachments, nextReportId, nextCommentId,
                 nextAttachmentId, blobs, clock>>

UserIds == {1, 5, 7}

UpdateProfileInputs ==
  { [id |-> i] @@ e @@ f @@ w :
      i \in UserIds, e \in Opt("email", {<<"staff1", "@">>, <<"u5", "@">>}),
      f \in Opt("full_name", {"m"}), w \in Opt("password", {PasswordQ}) }

InvokeUpdateUserProfile(p) ==
  /\ calls[p].op = "idle"
  /\ \E input \in UpdateProfileInputs :
       calls' = [calls EXCEPT ![p] = NewCall("updateUserProfile", "select", input, 0, "")]
  /\ UNCHANGED <<users, nextUserId, reports, comments, attachments, nextReportId, nextCommentId,
                 nextAttachmentId, blobs, clock>>

\* db.select().from(usersTable).where(eq(id, input.id))
ProfileSelect(p) ==
  /\ calls[p].op = "updateUserProfile" /\ calls[p].pc = "select"
  /\ LET existingUsers == SelectById(users, calls[p].input.id) IN
       calls' = [calls EXCEPT ![p] =
                   IF Len(existingUsers) = 0
                     THEN Fail(@, "User with id not found")
                     ELSE [@ EXCEPT !.pc = "update"]]
  /\ UNCHANGED <<users, nextUserId, reports, comments, attachments, nextReportId, nextCommentId,
                 nextAttachmentId, blobs, clock>>

\* updateData: updated_at and the fields of the input that are not undefined.
ProfilePatch(row, input, salt, now) ==
  [f \in DOMAIN row |->
     IF f = "updated_at" THEN now
     ELSE IF f = "email" /\ Has(input, "email") THEN input.email
     ELSE IF f = "full_name" /\ Has(input, "full_name") THEN input.full_name
     ELSE IF f = "password_hash" /\ Has(input, "password")
       THEN Hash(input.password, salt)
     ELSE row[f]]

\* db.update(usersTable).set(updateData).where(eq(id, input.id)).returning();
\* return result[0]
ProfileUpdate(p) ==
  /\ calls[p].op = "updateUserProfile" /\ calls[p].pc = "update"
  /\ \E salt \in Salts :
       LET c == calls[p]
           rows == SelectById(users, c.input.id)
       IN
       IF Len(rows) = 0
         THEN /\ calls' = [calls EXCEPT ![p] = Ok(c, <<>>)]
              /\ UNCHANGED users
         ELSE LET user == ProfilePatch(rows[1], c.input, salt, clock) IN
              IF UniqueViolation(users, user)
                THEN /\ calls' = [calls EXCEPT ![p] =
                                    Fail(c, "duplicate key value violates unique constraint")]
                     /\ UNCHANGED users
                ELSE /\ users' = (users \ {rows[1]}) \cup {user}
                     /\ calls' = [calls EXCEPT ![p] = Ok(c, user)]
  /\ UNCHANGED <<nextUserId, reports, comments, attachments, nextReportId, nextCommentId,
                 nextAttachmentId, blobs, clock>>

LoginInputs ==
  [username : {"staff1", "u5", "u7"},
   password : {PasswordP, PasswordQ} \cup {Hash(PasswordP, salt) : salt \in Salts}]

InvokeLoginUser(p) ==
  /\ calls[p].op = "idle"
  /\ \E input \in LoginInputs :
       calls' = [calls EXCEPT ![p] = NewCall("loginUser", "select", input, 0, "")]
  /\ UNCHANGED <<users, nextUserId, reports, comments, attachments, nextReportId, nextCommentId,
                 nextAttachmentId, blobs, clock>>

\* db.select().from(usersTable).where(eq(username, input.username)); null is
\* <<>>, a returned user is the one-element sequence holding it.
LoginSelect(p) ==
  /\ calls[p].op = "loginUser" /\ calls[p].pc = "select"
  /\ LET c == calls[p]
         found == {u \in users : u.username = c.input.username}
     IN
     IF found = {}
       THEN calls' = [calls EXCEPT ![p] = Ok(c, <<>>)]
       ELSE \E user \in found :
              calls' = [calls EXCEPT ![p] =
                          IF user.password_hash # c.input.password
                            THEN Ok(c, <<>>)
                            ELSE Ok(c, <<user>>)]
  /\ UNCHANGED <<users, nextUserId, reports, comments, attachments, nextReportId, nextCommentId,
                 nextAttachmentId, blobs, clock>>

\* The role stored for a user id, "" when there is no such user.
StoredRole(userId) ==
  IF \E u \in users : u.id = userId
    THEN (CHOOSE u \in users : u.id = userId).role
    ELSE ""

(***************************************************************************)
(* Specifications.                                                         *)
(***************************************************************************)
\* The caller slot of the request-response system: one call at a time.
SeqProcs == {1}

\* A reports table of n rows as createReport leaves it: ids 1..n, any status
\* the input schema accepts, created by an existing user.
SeedCreators == {1, 2}
ReportSeeds == [status : Statuses, created_by : SeedCreators]

SeedRow(i, seed) ==
  [id |-> i, title |-> TitleA, activity_date |-> 1, start_time |-> "09:00",
   end_time |-> "12:00", description |-> DescD, location |-> LocL,
   participants |-> PartP, status |-> seed.status, created_by |-> seed.created_by,
   created_at |-> 0, updated_at |-> 0]

InitTables ==
  /\ users = InitUsers
  /\ nextUserId = 5
  /\ blobs = {}
  /\ comments = {}
  /\ attachments = {}
  /\ nextAttachmentId = 1
  /\ nextCommentId = 1
  /\ clock = 0
  /\ \E n \in 0..MaxReports :
       /\ nextReportId = n + 1
       /\ \E f \in [1..n -> ReportSeeds] : reports = {SeedRow(i, f[i]) : i \in 1..n}

InitSeeded ==
  /\ InitTables
  /\ calls = [p \in Procs |-> Idle]

CreateStep(p) ==
  \/ InvokeCreateReport(p)
  \/ CreateSelectUser(p)
  \/ CreateInsert(p)

UpdateStep(p) ==
  \/ InvokeUpdateReport(p)
  \/ UpdateSelectUser(p)
  \/ UpdateSelectReport(p)
  \/ UpdateWrite(p)

ReviewStep(p) ==
  \/ InvokeReviewReport(p)
  \/ ReviewSelectUser(p)
  \/ ReviewSelectReport(p)
  \/ ReviewUpdate(p)
  \/ ReviewInsertComment(p)

GetReportsStep(p) ==
  \/ InvokeGetReports(p)
  \/ GetReportsPage(p)
  \/ GetReportsCount(p)

GetReportByIdStep(p) ==
  \/ InvokeGetReportById(p)
  \/ GetReportByIdSelect(p)

DeleteStep(p) ==
  \/ InvokeDeleteReport(p)
  \/ DeleteSelect(p)
  \/ DeleteWrite(p)

AddCommentStep(p) ==
  \/ InvokeAddComment(p)
  \/ AddCommentSelect(p)
  \/ AddCommentInsert(p)

UploadStep(p) ==
  \/ InvokeUploadAttachment(p)
  \/ UploadSelect(p)
  \/ UploadInsert(p)

DeleteAttachmentStep(p) ==
  \/ InvokeDeleteAttachment(p)
  \/ DeleteAttachmentSelect(p)
  \/ DeleteAttachmentRow(p)
  \/ DeleteAttachmentUnlink(p)

DashboardStep(p) ==
  \/ InvokeGetDashboardStats(p)
  \/ DashboardCount(p)
  \/ DashboardRecent(p)

GetCommentsStep(p) ==
  \/ InvokeGetReportComments(p)
  \/ GetCommentsSelectReport(p)
  \/ GetCommentsSelectRows(p)

GetAttachmentsStep(p) ==
  \/ InvokeGetReportAttachments(p)
  \/ GetAttachmentsSelectReport(p)
  \/ GetAttachmentsSelectRows(p)

RegisterStep(p) ==
  \/ InvokeRegisterUser(p)
  \/ RegisterInsert(p)

ProfileStep(p) ==
  \/ InvokeUpdateUserProfile(p)
  \/ ProfileSelect(p)
  \/ ProfileUpdate(p)

LoginStep(p) ==
  \/ InvokeLoginUser(p)
  \/ LoginSelect(p)

\* The whole system, calls of two callers interleaving.
Next ==
  \/ Tick
  \/ \E p \in Procs :
       \/ Return(p)
       \/ RegisterStep(p)
       \/ ProfileStep(p)
       \/ LoginStep(p)
       \/ CreateStep(p)
       \/ UpdateStep(p)
       \/ ReviewStep(p)
       \/ GetReportsStep(p)
       \/ GetReportByIdStep(p)
       \/ DeleteStep(p)
       \/ AddCommentStep(p)
       \/ UploadStep(p)
       \/ DeleteAttachmentStep(p)
       \/ GetCommentsStep(p)
       \/ GetAttachmentsStep(p)
       \/ DashboardStep(p)

Spec == Init /\ [][Next]_vars

\* createReport, one call at a time, from the empty tables.
NextCreate == Tick \/ \E p \in SeqProcs : Return(p) \/ CreateStep(p)
SpecCreate == Init /\ [][NextCreate]_vars

\* updateReport, one call at a time, on any seeded reports table.
NextUpdate == \E p \in SeqProcs : Return(p) \/ UpdateStep(p)
SpecUpdate == InitSeeded /\ [][NextUpdate]_vars

\* One updateReport call made at any time of the clock, on any seeded reports
\* table.
NextUpdateFrame == Tick \/ \E p \in SeqProcs : UpdateStep(p)
SpecUpdateFrame == InitSeeded /\ [][NextUpdateFrame]_vars

\* reviewReport, one call at a time, on any seeded reports table.
NextReview == \E p \in SeqProcs : Return(p) \/ ReviewStep(p)
SpecReview == InitSeeded /\ [][NextReview]_vars

\* The life of one report, created by either staff user in any status, under
\* updateReport and reviewReport calls in any order, one call at a time.
InitLifecycle ==
  /\ users = InitUsers
  /\ nextUserId = 5
  /\ blobs = {}
  /\ \E seed \in ReportSeeds : reports = {SeedRow(1, seed)}
  /\ comments = {}
  /\ attachments = {}
  /\ nextReportId = 2
  /\ nextCommentId = 1
  /\ nextAttachmentId = 1
  /\ clock = 0
  /\ calls = [p \in Procs |-> Idle]

NextLifecycle == \E p \in SeqProcs : Return(p) \/ UpdateStep(p) \/ ReviewStep(p)
SpecLifecycle == InitLifecycle /\ [][NextLifecycle]_vars

\* getReportById, one call at a time, on any seeded reports table.
NextGetById == \E p \in SeqProcs : Return(p) \/ GetReportByIdStep(p)
SpecGetById == InitSeeded /\ [][NextGetById]_vars

\* The user accounts: registerUser and updateUserProfile, one call at a time,
\* on the seeded users and no reports.
InitAccounts ==
  /\ users = InitUsers
  /\ nextUserId = 5
  /\ blobs = {}
  /\ reports = {}
  /\ comments = {}
  /\ attachments = {}
  /\ nextReportId = 1
  /\ nextCommentId = 1
  /\ nextAttachmentId = 1
  /\ clock = 0
  /\ calls = [p \in Procs |-> Idle]

NextAccounts == \E p \in SeqProcs : Return(p) \/ RegisterStep(p) \/ ProfileStep(p)
SpecAccounts == InitAccounts /\ [][NextAccounts]_vars

\* registerUser followed by loginUser: the finished registration stays in its
\* slot while the other slot logs in.
NextLogin == \E p \in Procs : Return(p) \/ RegisterStep(p) \/ LoginStep(p)
SpecLogin == InitAccounts /\ [][NextLogin]_vars

\* getReportById with any string passed as the caller's role: the three roles
\* and strings that are none of them.
RoleStrings == Roles \cup {"staff", "GUEST", ""}

InvokeGetReportByIdAs(p) ==
  /\ calls[p].op = "idle"
  /\ \E reportId \in ReportIds, userId \in CallerIds, userRole \in RoleStrings :
       calls' = [calls EXCEPT ![p] =
                   NewCall("getReportById", "select", [id |-> reportId], userId, userRole)]
  /\ UNCHANGED <<users, nextUserId, blobs, reports, comments, attachments, nextReportId, nextCommentId,
                 nextAttachmentId, clock>>

NextRoleStrings ==
  \E p \in SeqProcs :
    \/ Return(p)
    \/ InvokeGetReportByIdAs(p)
    \/ GetReportByIdSelect(p)
SpecRoleStrings == InitSeeded /\ [][NextRoleStrings]_vars

\* getReportById called twice on one report table, the second call after or
\* during the first; the results of both calls are kept.
NextGetByIdTwice == \E p \in Procs : GetReportByIdStep(p)
SpecGetByIdTwice == InitLifecycle /\ [][NextGetByIdTwice]_vars

\* deleteReport, one call at a time, on any seeded reports table.
NextDelete == \E p \in SeqProcs : Return(p) \/ DeleteStep(p)
SpecDelete == InitSeeded /\ [][NextDelete]_vars

\* deleteReport, one call at a time, on reports of the first staff user that
\* carry any number of comments and attachments.
SeedComment(i, reportId) ==
  [id |-> i, report_id |-> reportId, user_id |-> 3, comment |-> <<"k">>,
   created_at |-> 0]

SeedAttachment(i, reportId) ==
  [id |-> i, report_id |-> reportId, filename |-> "f", original_filename |-> "o",
   file_path |-> "/f", file_size |-> 1, mime_type |-> "m", uploaded_at |-> 0]

InitCascade ==
  /\ users = InitUsers
  /\ nextUserId = 5
  /\ blobs = {}
  /\ clock = 0
  /\ calls = [p \in Procs |-> Idle]
  /\ \E n \in 1..MaxReports, k \in 0..MaxComments, m \in 0..MaxAttachments :
       /\ nextReportId = n + 1
       /\ nextCommentId = k + 1
       /\ nextAttachmentId = m + 1
       /\ reports = {SeedRow(i, [status |-> "SUBMITTED", created_by |-> 1]) : i \in 1..n}
       /\ \E g \in [1..k -> 1..n] : comments = {SeedComment(i, g[i]) : i \in 1..k}
       /\ \E h \in [1..m -> 1..n] : attachments = {SeedAttachment(i, h[i]) : i \in 1..m}

SpecCascade == InitCascade /\ [][NextDelete]_vars

\* The operations that write comments or delete reports, one call at a
\* time, on SUBMITTED reports of user 1 that have comments; the comments
\* table has room for one more comment.
InitCommentHistory ==
  /\ users = InitUsers
  /\ nextUserId = 5
  /\ blobs = {}
  /\ attachments = {}
  /\ nextAttachmentId = 1
  /\ clock = 0
  /\ calls = [p \in Procs |-> Idle]
  /\ \E n \in {MaxReports}, k \in {MaxComments - 1} :
       /\ nextReportId = n + 1
       /\ nextCommentId = k + 1
       /\ reports = {SeedRow(i, [status |-> "SUBMITTED", created_by |-> 1]) : i \in 1..n}
       /\ \E g \in [1..k -> 1..n] : comments = {SeedComment(i, g[i]) : i \in 1..k}

NextCommentHistory ==
  \E p \in SeqProcs :
    \/ Return(p)
    \/ AddCommentStep(p)
    \/ ReviewStep(p)
    \/ DeleteStep(p)
SpecCommentHistory == InitCommentHistory /\ [][NextCommentHistory]_vars

\* addComment, one call at a time, on SUBMITTED reports of either staff user.
InitOwned ==
  /\ users = InitUsers
  /\ nextUserId = 5
  /\ blobs = {}
  /\ comments = {}
  /\ attachments = {}
  /\ nextCommentId = 1
  /\ nextAttachmentId = 1
  /\ clock = 0
  /\ calls = [p \in Procs |-> Idle]
  /\ \E n \in 0..MaxReports :
       /\ nextReportId = n + 1
       /\ \E f \in [1..n -> SeedCreators] :
            reports = {SeedRow(i, [status |-> "SUBMITTED", created_by |-> f[i]]) : i \in 1..n}

NextComment == \E p \in SeqProcs : Return(p) \/ AddCommentStep(p)
SpecComment == InitOwned /\ [][NextComment]_vars

\* getReportComments and getReportAttachments, one call at a time, on reports
\* of the first staff user that carry comments and attachments.
NextRowLists == \E p \in SeqProcs : Return(p) \/ GetCommentsStep(p) \/ GetAttachmentsStep(p)
SpecRowLists == InitCascade /\ [][NextRowLists]_vars

\* uploadAttachment, one call at a time, on SUBMITTED reports of either staff
\* user.
NextUpload == \E p \in SeqProcs : Return(p) \/ UploadStep(p)
SpecUpload == InitOwned /\ [][NextUpload]_vars

\* deleteAttachment, one call at a time, on reports of either staff user with
\* any number of attachments, whose file is present in the storage or not.
InitAttachments ==
  /\ users = InitUsers
  /\ nextUserId = 5
  /\ comments = {}
  /\ nextCommentId = 1
  /\ clock = 0
  /\ calls = [p \in Procs |-> Idle]
  /\ blobs \in SUBSET {"/f"}
  /\ \E n \in 1..MaxReports, m \in 0..MaxAttachments :
       /\ nextReportId = n + 1
       /\ nextAttachmentId = m + 1
       /\ \E f \in [1..n -> SeedCreators] :
            reports = {SeedRow(i, [status |-> "SUBMITTED", created_by |-> f[i]]) : i \in 1..n}
       /\ \E h \in [1..m -> 1..n] : attachments = {SeedAttachment(i, h[i]) : i \in 1..m}

NextDeleteAttachment == \E p \in SeqProcs : Return(p) \/ DeleteAttachmentStep(p)
SpecDeleteAttachment == InitAttachments /\ [][NextDeleteAttachment]_vars

\* getDashboardStats, one call at a time, on up to MaxDashRows reports created
\* one after another: the statuses rotate, every third report is the second
\* staff user's, and two reports in a row share their created_at.
DashStatuses == <<"DRAFT", "SUBMITTED", "APPROVED", "REJECTED">>

DashRow(i, s, c) ==
  [SeedRow(i, [status |-> DashStatuses[((i + s) % 4) + 1],
               created_by |-> IF i % 3 = c THEN 2 ELSE 1])
     EXCEPT !.created_at = i \div 2, !.updated_at = i \div 2]

InitDashboard ==
  /\ users = InitUsers
  /\ nextUserId = 5
  /\ comments = {}
  /\ attachments = {}
  /\ blobs = {}
  /\ nextCommentId = 1
  /\ nextAttachmentId = 1
  /\ calls = [p \in Procs |-> Idle]
  /\ \E n \in 0..MaxDashRows, s \in 0..3, c \in 0..2 :
       /\ nextReportId = n + 1
       /\ clock = n \div 2
       /\ reports = {DashRow(i, s, c) : i \in 1..n}

NextDashboard == \E p \in SeqProcs : Return(p) \/ DashboardStep(p)
SpecDashboard == InitDashboard /\ [][NextDashboard]_vars

\* getReports, one call at a time, on a reports table whose rows differ in
\* creator, status and activity date; the titles alternate between the rows,
\* which were created one after another, the second and third at the same
\* time.
ListSeeds ==
  [status : {"DRAFT", "SUBMITTED"}, created_by : SeedCreators, activity_date : {1, 2}]

ListRow(i, seed) ==
  [SeedRow(i, seed) EXCEPT !.title = IF i % 2 = 1 THEN TitleA ELSE TitleB,
                           !.activity_date = seed.activity_date,
                           !.created_at = i \div 2,
                           !.updated_at = i \div 2]

InitList ==
  /\ users = InitUsers
  /\ nextUserId = 5
  /\ blobs = {}
  /\ comments = {}
  /\ attachments = {}
  /\ nextAttachmentId = 1
  /\ nextCommentId = 1
  /\ clock = 0
  /\ calls = [p \in Procs |-> Idle]
  /\ \E n \in 0..MaxListRows :
       /\ nextReportId = n + 1
       /\ \E f \in [1..n -> ListSeeds] : reports = {ListRow(i, f[i]) : i \in 1..n}

NextList == \E p \in SeqProcs : Return(p) \/ GetReportsStep(p)
SpecList == InitList /\ [][NextList]_vars

\* getReports with a search term, over reports whose title, description and
\* location differ in letters, letter case and length.
SearchTerms == { <<"A">>, <<"b", "a">>, <<"d">>, <<"_">> }

SearchInputs ==
  { [limit |-> 2, offset |-> 0, search |-> se] @@ st :
      se \in SearchTerms, st \in Opt("status", {"SUBMITTED"}) }

InvokeSearchReports(p) ==
  /\ calls[p].op = "idle"
  /\ \E input \in SearchInputs, caller \in ListCallers :
       calls' = [calls EXCEPT ![p] =
                   NewCall("getReports", "queries", input, caller.userId, caller.userRole)]
  /\ UNCHANGED <<users, nextUserId, blobs, attachments, nextAttachmentId, reports, comments, nextReportId, nextCommentId, clock>>

SearchSeeds ==
  [status : {"DRAFT", "SUBMITTED"}, title : {<<"a", "B">>, LocL},
   description : {DescD, <<"A">>}, location : {LocL, <<"B", "a">>}]

SearchRow(i, seed) ==
  [SeedRow(i, [status |-> seed.status, created_by |-> 1]) EXCEPT
     !.title = seed.title,
     !.description = seed.description,
     !.location = seed.location,
     !.created_at = i,
     !.updated_at = i]

InitSearch ==
  /\ users = InitUsers
  /\ nextUserId = 5
  /\ blobs = {}
  /\ comments = {}
  /\ attachments = {}
  /\ nextAttachmentId = 1
  /\ nextCommentId = 1
  /\ clock = 0
  /\ calls = [p \in Procs |-> Idle]
  /\ \E n \in 0..MaxListRows :
       /\ nextReportId = n + 1
       /\ \E f \in [1..n -> SearchSeeds] : reports = {SearchRow(i, f[i]) : i \in 1..n}

NextSearch ==
  \E p \in SeqProcs :
    \/ Return(p)
    \/ InvokeSearchReports(p)
    \/ GetReportsPage(p)
    \/ GetReportsCount(p)
SpecSearch == InitSearch /\ [][NextSearch]_vars

\* Two reviewReport calls by reviewers, made at the same time against the
\* same SUBMITTED report; their statements interleave in any order.
RaceReviewers == {3, 4}
RaceInputs == {in \in ReviewInputs : in.report_id = 1}

InitReviewRace ==
  /\ users = InitUsers
  /\ nextUserId = 5
  /\ blobs = {}
  /\ reports = {SeedRow(1, [status |-> "SUBMITTED", created_by |-> 1])}
  /\ comments = {}
  /\ attachments = {}
  /\ nextAttachmentId = 1
  /\ nextReportId = 2
  /\ nextCommentId = 1
  /\ clock = 0
  /\ \E in1 \in RaceInputs, in2 \in RaceInputs, u1 \in RaceReviewers, u2 \in RaceReviewers :
       calls = [p \in Procs |->
                  NewCall("reviewReport", "selectUser",
                          IF p = 1 THEN in1 ELSE in2, IF p = 1 THEN u1 ELSE u2, "")]

NextReviewRace ==
  \E p \in Procs :
    \/ ReviewSelectUser(p)
    \/ ReviewSelectReport(p)
    \/ ReviewUpdate(p)
    \/ ReviewInsertComment(p)

SpecReviewRace == InitReviewRace /\ [][NextReviewRace]_vars

\* An updateReport call of STAFF user 1 on their DRAFT report 1, made at the
\* same time as the update that submits the report; reviewReport calls follow
\* the submit in its slot.
RaceUpdates == {in \in UpdateInputs : in.id = 1 /\ ~Has(in, "status")}
RaceSubmits == {in \in UpdateInputs : in.id = 1 /\ Has(in, "status") /\ in.status = "SUBMITTED"}

InitUpdateRace ==
  /\ users = InitUsers
  /\ nextUserId = 5
  /\ blobs = {}
  /\ reports = {SeedRow(1, [status |-> "DRAFT", created_by |-> 1])}
  /\ comments = {}
  /\ attachments = {}
  /\ nextAttachmentId = 1
  /\ nextReportId = 2
  /\ nextCommentId = 1
  /\ clock = 0
  /\ \E in1 \in RaceUpdates, in2 \in RaceSubmits :
       calls = [p \in Procs |->
                  NewCall("updateReport", "selectUser", IF p = 1 THEN in1 ELSE in2, 1, "")]

NextUpdateRace ==
  \/ \E p \in Procs :
       \/ UpdateSelectUser(p)
       \/ UpdateSelectReport(p)
       \/ UpdateWrite(p)
  \/ Return(2)
  \/ ReviewStep(2)

SpecUpdateRace == InitUpdateRace /\ [][NextUpdateRace]_vars

\* A deleteReport call that may delete report 1, made at the same time as an
\* addComment, an uploadAttachment or a commenting reviewReport on that
\* report; the report may already carry a comment and an attachment.
RaceWriters ==
  {NewCall("addComment", "select", [report_id |-> 1, comment |-> CommentOk], u, "") :
     u \in {1, 2}}
  \cup {NewCall("uploadAttachment", "select", in, 1, "") :
           in \in {i \in UploadInputs : i.report_id = 1}}
  \cup {NewCall("reviewReport", "selectUser", in, 3, "") :
           in \in {i \in RaceInputs : RecordsComment(i)}}

RaceDeleters ==
  {NewCall("deleteReport", "select", [id |-> 1], caller.userId, caller.userRole) :
     caller \in {c \in RoleCallers : c.userId \in {1, 4} /\ c.userRole = StoredRole(c.userId)}}

InitDeleteRace ==
  /\ users = InitUsers
  /\ nextUserId = 5
  /\ blobs = {}
  /\ reports = {SeedRow(1, [status |-> "SUBMITTED", created_by |-> 1])}
  /\ nextReportId = 2
  /\ clock = 0
  /\ \E k \in 0..1, m \in 0..1 :
       /\ comments = {SeedComment(i, 1) : i \in 1..k}
       /\ attachments = {SeedAttachment(i, 1) : i \in 1..m}
       /\ nextCommentId = k + 1
       /\ nextAttachmentId = m + 1
  /\ \E d \in RaceDeleters, w \in RaceWriters :
       calls = [p \in Procs |-> IF p = 1 THEN d ELSE w]

NextDeleteRace ==
  \E p \in Procs :
    \/ DeleteSelect(p)
    \/ DeleteWrite(p)
    \/ AddCommentSelect(p)
    \/ AddCommentInsert(p)
    \/ UploadSelect(p)
    \/ UploadInsert(p)
    \/ ReviewSelectUser(p)
    \/ ReviewSelectReport(p)
    \/ ReviewUpdate(p)
    \/ ReviewInsertComment(p)

SpecDeleteRace == InitDeleteRace /\ [][NextDeleteRace]_vars

\* A deleteReport call of a permitted caller on the SUBMITTED report 1, made
\* at the same time as a second such call or as a reviewReport of the report.
RaceReviews ==
  {NewCall("reviewReport", "selectUser", in, u, "") :
     in \in RaceInputs, u \in RaceReviewers}

InitReportRace ==
  /\ users = InitUsers
  /\ nextUserId = 5
  /\ blobs = {}
  /\ reports = {SeedRow(1, [status |-> "SUBMITTED", created_by |-> 1])}
  /\ comments = {}
  /\ attachments = {}
  /\ nextReportId = 2
  /\ nextCommentId = 1
  /\ nextAttachmentId = 1
  /\ clock = 0
  /\ \E d \in RaceDeleters, o \in RaceDeleters \cup RaceReviews :
       calls = [p \in Procs |-> IF p = 1 THEN d ELSE o]

NextReportRace ==
  \E p \in Procs :
    \/ DeleteSelect(p)
    \/ DeleteWrite(p)
    \/ ReviewSelectUser(p)
    \/ ReviewSelectReport(p)
    \/ ReviewUpdate(p)
    \/ ReviewInsertComment(p)

SpecReportRace == InitReportRace /\ [][NextReportRace]_vars

\* A getDashboardStats call made at the same time as a call that writes
\* report 1 or creates a report: a createReport, an updateReport or a
\* reviewReport of a reviewer, or a deleteReport of the creator.
DashboardRaceWriters ==
  {NewCall("createReport", "selectUser", in, 1, "") : in \in CreateInputs}
  \cup {NewCall("updateReport", "selectUser", in, 4, "") :
           in \in {i \in UpdateInputs : i.id = 1 /\ Has(i, "status")}}
  \cup {NewCall("reviewReport", "selectUser", in, 3, "") :
           in \in {i \in RaceInputs : ~Has(i, "comment")}}
  \cup {NewCall("deleteReport", "select", [id |-> 1], 1, "STAFF")}

InitDashboardRace ==
  /\ users = InitUsers
  /\ nextUserId = 5
  /\ blobs = {}
  /\ reports = {SeedRow(1, [status |-> "SUBMITTED", created_by |-> 1])}
  /\ comments = {}
  /\ attachments = {}
  /\ nextReportId = 2
  /\ nextCommentId = 1
  /\ nextAttachmentId = 1
  /\ clock = 0
  /\ \E caller \in ListCallers, w \in DashboardRaceWriters :
       calls = [p \in Procs |->
                  IF p = 1
                    THEN NewCall("getDashboardStats", "counts", <<>>,
                                 caller.userId, caller.userRole)
                    ELSE w]

NextDashboardRace ==
  \E p \in Procs :
    \/ DashboardCount(p)
    \/ DashboardRecent(p)
    \/ CreateSelectUser(p)
    \/ CreateInsert(p)
    \/ UpdateSelectUser(p)
    \/ UpdateSelectReport(p)
    \/ UpdateWrite(p)
    \/ ReviewSelectUser(p)
    \/ ReviewSelectReport(p)
    \/ ReviewUpdate(p)
    \/ DeleteSelect(p)
    \/ DeleteWrite(p)

SpecDashboardRace == InitDashboardRace /\ [][NextDashboardRace]_vars

(***************************************************************************)
(* Properties.                                                             *)
(***************************************************************************)
Finished(p, op) == calls[p].op = op /\ calls[p].pc = "done"

\* The tables are as they were when the call in slot p was made.
TablesUntouched(p) ==
  /\ reports = calls[p].pre.reports
  /\ comments = calls[p].pre.comments
  /\ attachments = calls[p].pre.attachments

Other(p) == CHOOSE q \in Procs : q # p

\* C1: of two reviewReport calls by PIMPINAN/ADMIN users that run concurrently
\* against the same SUBMITTED report, exactly one succeeds and the other fails
\* with 'Only submitted reports can be reviewed'.
C1_ExactlyOneReviewWins ==
  (\A p \in Procs : Finished(p, "reviewReport")) =>
    \E p \in Procs :
      /\ calls[p].outcome = "ok"
      /\ calls[Other(p)].outcome = "error"
      /\ calls[Other(p)].error = "Only submitted reports can be reviewed"

\* C2: reviewReport by a PIMPINAN or ADMIN user on a DRAFT, APPROVED or
\* REJECTED report fails with 'Only submitted reports can be reviewed' and
\* leaves the report and the comments unchanged; on a SUBMITTED report it
\* succeeds and the report's status is then the requested one.
C2_ReviewOnlySubmitted ==
  \A p \in SeqProcs :
    LET c == calls[p] IN
    (Finished(p, "reviewReport") /\ StoredRole(c.userId) \in {"PIMPINAN", "ADMIN"}) =>
      \A r \in c.pre.reports :
        r.id = c.input.report_id =>
          IF r.status \in {"DRAFT", "APPROVED", "REJECTED"}
            THEN /\ c.outcome = "error"
                 /\ c.error = "Only submitted reports can be reviewed"
                 /\ TablesUntouched(p)
            ELSE /\ c.outcome = "ok"
                 /\ \E n \in reports : n.id = r.id /\ n.status = c.input.status
                 /\ c.value = SelectById(reports, r.id)

C2_Witness ==
  \E p \in SeqProcs :
    /\ Finished(p, "reviewReport")
    /\ StoredRole(calls[p].userId) = "PIMPINAN"
    /\ calls[p].error = "Only submitted reports can be reviewed"
    /\ \E r \in calls[p].pre.reports :
         r.id = calls[p].input.report_id /\ r.status = "APPROVED"
    /\ calls[p].pre.comments # {}

\* C3: reviewReport by a user whose stored role is STAFF fails with the
\* permission error, whatever the report's status, and changes neither the
\* reports nor the comments.
C3_StaffCannotReview ==
  \A p \in SeqProcs :
    (Finished(p, "reviewReport") /\ StoredRole(calls[p].userId) = "STAFF") =>
      /\ calls[p].outcome = "error"
      /\ calls[p].error = "Insufficient permissions to review reports"
      /\ TablesUntouched(p)

C3_Witness ==
  \E p \in SeqProcs :
    /\ Finished(p, "reviewReport")
    /\ StoredRole(calls[p].userId) = "STAFF"
    /\ \E r \in reports :
         /\ r.id = calls[p].input.report_id
         /\ r.status = "SUBMITTED"
         /\ r.created_by = calls[p].userId

\* C4: updateReport by a STAFF user fails with 'Staff users can only update
\* their own reports' on another user's report, and with 'Staff users can only
\* update reports in DRAFT status' on the caller's own report that is
\* SUBMITTED, APPROVED or REJECTED; no field of any report changes.
C4_StaffUpdateRefused ==
  \A p \in SeqProcs :
    LET c == calls[p] IN
    (Finished(p, "updateReport") /\ StoredRole(c.userId) = "STAFF") =>
      \A r \in c.pre.reports :
        r.id = c.input.id =>
          /\ r.created_by # c.userId =>
               /\ c.outcome = "error"
               /\ c.error = "Staff users can only update their own reports"
               /\ reports = c.pre.reports
          /\ (r.created_by = c.userId /\ r.status \in {"SUBMITTED", "APPROVED", "REJECTED"}) =>
               /\ c.outcome = "error"
               /\ c.error = "Staff users can only update reports in DRAFT status"
               /\ reports = c.pre.reports

C4_Witness ==
  \E p \in SeqProcs :
    /\ Finished(p, "updateReport")
    /\ StoredRole(calls[p].userId) = "STAFF"
    /\ calls[p].error = "Staff users can only update reports in DRAFT status"
    /\ Has(calls[p].input, "title")
    /\ \E r \in reports :
         r.id = calls[p].input.id /\ r.created_by = calls[p].userId /\ r.status = "REJECTED"

\* C5: no updateReport call made by a STAFF user sets a report's status to
\* APPROVED or REJECTED.
C5_StaffUpdateNeverDecides ==
  \A p \in SeqProcs :
    LET c == calls[p] IN
    (Finished(p, "updateReport") /\ c.outcome = "ok" /\ StoredRole(c.userId) = "STAFF") =>
      \A r \in reports :
        (r.id = c.input.id /\ r.status \in ReviewStatuses) =>
          \E o \in c.pre.reports : o.id = r.id /\ o.status = r.status

\* C6: the report createReport has just created has status DRAFT, or SUBMITTED
\* if the creator requested SUBMITTED; never APPROVED or REJECTED.
C6_CreatedDraftOrSubmitted ==
  \A p \in SeqProcs :
    LET c == calls[p] IN
    (Finished(p, "createReport") /\ c.outcome = "ok") =>
      c.value[1].status =
        IF Has(c.input, "status") /\ c.input.status = "SUBMITTED"
          THEN "SUBMITTED"
          ELSE "DRAFT"

\* C7: createReport with no status in its input persists and returns a report
\* with status DRAFT and created_by equal to the given creator id.
C7_CreateDefaultsToDraft ==
  \A p \in SeqProcs :
    LET c == calls[p] IN
    (Finished(p, "createReport") /\ ~Has(c.input, "status") /\ StoredRole(c.userId) # "") =>
      /\ c.outcome = "ok"
      /\ Len(c.value) = 1
      /\ c.value[1].status = "DRAFT"
      /\ c.value[1].created_by = c.userId
      /\ c.value[1] \in reports
      /\ reports = c.pre.reports \cup {c.value[1]}
      /\ \A o \in c.pre.reports : o.id # c.value[1].id

C7_Witness ==
  \E p \in SeqProcs :
    /\ Finished(p, "createReport")
    /\ ~Has(calls[p].input, "status")
    /\ calls[p].outcome = "ok"
    /\ calls[p].pre.reports # {}

\* C8: createReport with a creator id that matches no user fails with a
\* not-found error and persists no report.
C8_CreateUnknownUser ==
  \A p \in SeqProcs :
    LET c == calls[p] IN
    (Finished(p, "createReport") /\ StoredRole(c.userId) = "") =>
      /\ c.outcome = "error"
      /\ c.error = "User with ID not found"
      /\ reports = c.pre.reports

C8_Witness ==
  \E p \in SeqProcs :
    /\ Finished(p, "createReport")
    /\ StoredRole(calls[p].userId) = ""
    /\ calls[p].outcome = "error"
    /\ reports # {}

\* What the filters of a getReports input ask of a report, the creator filter
\* aside: the status is the given one, the activity date lies within the given
\* bounds (inclusive), and the search term occurs in the title, the
\* description or the location, letter case ignored.
OccursIn(term, text) ==
  \E k \in 0..(Len(text) - Len(term)) :
    \A i \in 1..Len(term) : Lower(text[k + i]) = Lower(term[i])

SatisfiesFilters(input, r) ==
  /\ Has(input, "status") => r.status = input.status
  /\ Has(input, "activity_date_from") => r.activity_date >= input.activity_date_from
  /\ Has(input, "activity_date_to") => r.activity_date <= input.activity_date_to
  /\ Has(input, "search") =>
       \/ OccursIn(input.search, r.title)
       \/ OccursIn(input.search, r.description)
       \/ OccursIn(input.search, r.location)

RowsOf(seq) == {seq[i] : i \in 1..Len(seq)}

\* C9: for a STAFF caller U and every filter input, a created_by filter naming
\* another user included, getReports returns only reports created by U and
\* total counts exactly U's reports that satisfy the other filters.
C9_StaffListsOwnReportsOnly ==
  \A p \in SeqProcs :
    LET c == calls[p] IN
    (Finished(p, "getReports") /\ c.userRole = "STAFF") =>
      /\ c.outcome = "ok"
      /\ \A r \in RowsOf(c.value.reports) : r.created_by = c.userId
      /\ RowsOf(c.value.reports) \subseteq reports
      /\ c.value.total =
           Cardinality({r \in reports : r.created_by = c.userId /\ SatisfiesFilters(c.input, r)})

C9_Witness ==
  \E p \in SeqProcs :
    LET c == calls[p] IN
    /\ Finished(p, "getReports")
    /\ c.userRole = "STAFF"
    /\ Has(c.input, "created_by")
    /\ c.input.created_by \notin {0, c.userId}
    /\ \E r \in reports : r.created_by = c.input.created_by
    /\ c.value.total = 1
    /\ Len(c.value.reports) = 1

\* C10: in every getReports result total is the number of reports that satisfy
\* the role scoping and all supplied filters, whatever limit and offset are;
\* for a PIMPINAN or ADMIN caller that is the number of reports satisfying the
\* supplied filters.
C10_TotalCountsAllMatches ==
  \A p \in SeqProcs :
    LET c == calls[p] IN
    Finished(p, "getReports") =>
      c.value.total =
        Cardinality({r \in reports :
          /\ SatisfiesFilters(c.input, r)
          /\ IF c.userRole = "STAFF"
               THEN r.created_by = c.userId
               ELSE Has(c.input, "created_by") => r.created_by = c.input.created_by})

\* C11: getReportById returns null, without an error and without a change to
\* the tables, both when no report has the id and when the caller's role is
\* STAFF and the report was created by somebody else, so the two answers are
\* the same; for the report's creator and for every PIMPINAN or ADMIN caller it
\* returns the stored report.
C11_GetByIdHidesForeignReports ==
  \A p \in SeqProcs :
    LET c == calls[p]
        stored == {r \in reports : r.id = c.input.id}
    IN
    Finished(p, "getReportById") =>
      /\ c.outcome = "ok"
      /\ c.error = ""
      /\ TablesUntouched(p)
      /\ stored = {} => c.value = <<>>
      /\ \A r \in stored :
           IF c.userRole = "STAFF" /\ r.created_by # c.userId
             THEN c.value = <<>>
             ELSE c.value = <<r>>

C11_Witness ==
  \E p \in SeqProcs :
    LET c == calls[p] IN
    /\ Finished(p, "getReportById")
    /\ c.userRole = "STAFF"
    /\ c.value = <<>>
    /\ \E r \in reports : r.id = c.input.id /\ r.created_by # c.userId
    /\ \E i \in ReportIds : \A r \in reports : r.id # i

\* C12: updateReport by a PIMPINAN or ADMIN user on an existing report succeeds
\* whatever the report's creator and status, and the stored report then holds
\* every field of the input, the status included, so an APPROVED or REJECTED
\* report can be moved to another status.
C12_ReviewerUpdatesAnyReport ==
  \A p \in SeqProcs :
    LET c == calls[p] IN
    (/\ Finished(p, "updateReport")
     /\ StoredRole(c.userId) \in {"PIMPINAN", "ADMIN"}
     /\ \E o \in c.pre.reports : o.id = c.input.id) =>
      /\ c.outcome = "ok"
      /\ c.value[1] \in reports
      /\ c.value[1].id = c.input.id
      /\ \A f \in DOMAIN c.input : c.value[1][f] = c.input[f]

C12_Witness ==
  \E p \in SeqProcs :
    LET c == calls[p] IN
    /\ Finished(p, "updateReport")
    /\ StoredRole(c.userId) = "ADMIN"
    /\ c.outcome = "ok"
    /\ \E o \in c.pre.reports :
         o.id = c.input.id /\ o.status = "APPROVED" /\ o.created_by # c.userId
    /\ \E n \in reports : n.id = c.input.id /\ n.status = "DRAFT"

\* C13: a successful updateReport changes, in the report it names, only the
\* fields present in the input and updated_at (which is set to the time of the
\* write): every other field, id, created_by and created_at included, keeps
\* its value, and every other report is unchanged.
C13_UpdateChangesPatchOnly ==
  \A p \in SeqProcs :
    LET c == calls[p] IN
    (Finished(p, "updateReport") /\ c.outcome = "ok") =>
      /\ Cardinality(reports) = Cardinality(c.pre.reports)
      /\ \A o \in c.pre.reports :
           IF o.id = c.input.id
             THEN \E n \in reports :
                    /\ n.id = o.id
                    /\ n = c.value[1]
                    /\ n.updated_at \in o.updated_at..clock
                    /\ \A f \in DOMAIN o \ {"updated_at"} :
                         n[f] = IF Has(c.input, f) THEN c.input[f] ELSE o[f]
             ELSE o \in reports

C13_Witness ==
  \E p \in SeqProcs :
    LET c == calls[p] IN
    /\ Finished(p, "updateReport")
    /\ c.outcome = "ok"
    /\ Has(c.input, "title") /\ ~Has(c.input, "status")
    /\ Cardinality(reports) = 2
    /\ \E o \in c.pre.reports, n \in reports :
         /\ o.id = c.input.id /\ n.id = o.id
         /\ o.status = "APPROVED" /\ n.status = "APPROVED"
         /\ n.title # o.title
         /\ n.updated_at > o.updated_at

\* C14: no step of an updateReport or reviewReport call, by any user, changes
\* the created_by of a report: as long as the report exists its created_by is
\* the one it was created with.
C14_CreatedByImmutable ==
  [][\A r \in reports : \A n \in reports' :
       n.id = r.id => n.created_by = r.created_by]_vars

C14_Witness ==
  \E p \in SeqProcs :
    LET c == calls[p] IN
    /\ Finished(p, "updateReport")
    /\ c.outcome = "ok"
    /\ \E r \in reports :
         /\ r.id = c.input.id
         /\ r.created_by # c.userId
         /\ r.title = TitleB
         /\ \E k \in comments : k.report_id = r.id

\* C15: deleteReport by a STAFF caller deletes a report only if the caller
\* created it and its status is DRAFT; on an own report that is SUBMITTED,
\* APPROVED or REJECTED it returns false and leaves the report in place.
C15_StaffDeletesOwnDraftOnly ==
  \A p \in SeqProcs :
    LET c == calls[p] IN
    (Finished(p, "deleteReport") /\ c.userRole = "STAFF") =>
      \A r \in c.pre.reports :
        r.id = c.input.id =>
          /\ r \notin reports => (r.created_by = c.userId /\ r.status = "DRAFT")
          /\ (r.created_by = c.userId /\ r.status # "DRAFT") =>
               (c.value = FALSE /\ r \in reports)

\* C16: deleteReport returns true, and the report is gone, exactly when the
\* report existed and the caller is its creator or has role PIMPINAN or ADMIN,
\* for the creator in every status; in every other case it returns false, raises
\* no error and removes no report.
C16_DeleteResult ==
  \A p \in SeqProcs :
    LET c == calls[p]
        target == {r \in c.pre.reports :
                     /\ r.id = c.input.id
                     /\ r.created_by = c.userId \/ c.userRole \in {"PIMPINAN", "ADMIN"}}
    IN
    Finished(p, "deleteReport") =>
      /\ c.outcome = "ok"
      /\ c.error = ""
      /\ c.value = (target # {})
      /\ reports = c.pre.reports \ target
      /\ \A r \in target : \A n \in reports : n.id # r.id

C16_Witness ==
  \E p \in SeqProcs :
    LET c == calls[p] IN
    /\ Finished(p, "deleteReport")
    /\ c.userRole = "STAFF"
    /\ c.value = TRUE
    /\ \E r \in c.pre.reports :
         r.id = c.input.id /\ r.created_by = c.userId /\ r.status = "APPROVED"
    /\ reports # {}

\* C17: after a successful deleteReport no comment and no attachment of the
\* deleted report remains, however many it had, and the comments and
\* attachments of every other report are the ones there were before.
C17_DeleteCascades ==
  \A p \in SeqProcs :
    LET c == calls[p] IN
    (Finished(p, "deleteReport") /\ c.value = TRUE) =>
      /\ \A k \in comments : k.report_id # c.input.id
      /\ \A a \in attachments : a.report_id # c.input.id
      /\ comments = {k \in c.pre.comments : k.report_id # c.input.id}
      /\ attachments = {a \in c.pre.attachments : a.report_id # c.input.id}

C17_Witness ==
  \E p \in SeqProcs :
    LET c == calls[p] IN
    /\ Finished(p, "deleteReport")
    /\ c.value = TRUE
    /\ \E k \in c.pre.comments, a \in c.pre.attachments :
         k.report_id = c.input.id /\ a.report_id = c.input.id
    /\ comments # {}
    /\ attachments # {}

\* C18: in every state, also while a deleteReport interleaves with an
\* addComment, an uploadAttachment or a commenting reviewReport on the same
\* report, every comment and every attachment refers to an existing report,
\* and as long as the report of a deleteReport call exists the comments and
\* attachments it had when the call was made exist too.
C18_NoOrphanRows ==
  /\ \A k \in comments : \E r \in reports : r.id = k.report_id
  /\ \A a \in attachments : \E r \in reports : r.id = a.report_id
  /\ \A p \in Procs :
       (calls[p].op = "deleteReport" /\ \E r \in reports : r.id = calls[p].input.id) =>
         /\ {k \in calls[p].pre.comments : k.report_id = calls[p].input.id}
              \subseteq comments
         /\ {a \in calls[p].pre.attachments : a.report_id = calls[p].input.id}
              \subseteq attachments

C18_Witness ==
  \E p \in Procs :
    /\ Finished(p, "deleteReport")
    /\ calls[p].value = TRUE
    /\ calls[p].pre.comments # {}
    /\ calls[Other(p)].op \in {"addComment", "uploadAttachment", "reviewReport"}
    /\ calls[Other(p)].pc = "done"
    /\ calls[Other(p)].error = "foreign key violation"

\* t is s without its leading and trailing spaces.
IsTrimOf(t, s) ==
  /\ t # <<>> => (Head(t) # Space /\ t[Len(t)] # Space)
  /\ \E k \in 0..(Len(s) - Len(t)) :
       /\ SubSeq(s, k + 1, k + Len(t)) = t
       /\ \A i \in (1..k) \cup ((k + Len(t) + 1)..Len(s)) : s[i] = Space

\* C19: a successful reviewReport adds exactly one comment, on the reviewed
\* report, by the reviewer, holding the trimmed text, when the given comment
\* is non-empty after trimming; when the comment is absent, empty or only
\* whitespace it adds none and still succeeds.
C19_ReviewRecordsTrimmedComment ==
  \A p \in SeqProcs :
    LET c == calls[p]
        blank == ~Has(c.input, "comment") \/ \A i \in 1..Len(c.input.comment) :
                                               c.input.comment[i] = Space
    IN
    (Finished(p, "reviewReport") /\ StoredRole(c.userId) \in {"PIMPINAN", "ADMIN"}
       /\ \E r \in c.pre.reports : r.id = c.input.report_id /\ r.status = "SUBMITTED") =>
      /\ c.outcome = "ok"
      /\ IF blank
           THEN comments = c.pre.comments
           ELSE \E k \in comments :
                  /\ k \notin c.pre.comments
                  /\ comments = c.pre.comments \cup {k}
                  /\ k.report_id = c.input.report_id
                  /\ k.user_id = c.userId
                  /\ IsTrimOf(k.comment, c.input.comment)

C19_Witness ==
  \E p \in SeqProcs :
    LET c == calls[p] IN
    /\ Finished(p, "reviewReport")
    /\ c.outcome = "ok"
    /\ Has(c.input, "comment") /\ c.input.comment = CommentOk
    /\ \E k \in comments : k.comment = <<"k">> /\ k.user_id = c.userId
    /\ c.pre.comments = {}

C19_WitnessBlank ==
  \E p \in SeqProcs :
    LET c == calls[p] IN
    /\ Finished(p, "reviewReport")
    /\ c.outcome = "ok"
    /\ Has(c.input, "comment") /\ c.input.comment = CommentBlank
    /\ comments = {}

\* C20: addComment stores a comment only if the caller may view the report: for
\* a caller whose stored role is STAFF and a report created by another user
\* the call is refused and the comments are as before.
C20_CommentNeedsView ==
  \A p \in SeqProcs :
    LET c == calls[p] IN
    (/\ Finished(p, "addComment")
     /\ StoredRole(c.userId) = "STAFF"
     /\ \E r \in c.pre.reports : r.id = c.input.report_id /\ r.created_by # c.userId) =>
      /\ c.outcome = "error"
      /\ comments = c.pre.comments

\* C21: getReportComments and getReportAttachments fail with an error when the
\* report does not exist and when the caller is STAFF and did not create it;
\* for the report's creator and for every PIMPINAN or ADMIN caller they return
\* exactly the comments, or the attachments, of that report.
C21_RowListsFollowViewPolicy ==
  \A p \in SeqProcs :
    LET c == calls[p]
        stored == {r \in reports : r.id = c.input.id}
        rows == IF c.op = "getReportComments"
                  THEN {k \in comments : k.report_id = c.input.id}
                  ELSE {a \in attachments : a.report_id = c.input.id}
    IN
    (Finished(p, "getReportComments") \/ Finished(p, "getReportAttachments")) =>
      /\ TablesUntouched(p)
      /\ stored = {} => c.outcome = "error"
      /\ \A r \in stored :
           IF c.userRole = "STAFF" /\ r.created_by # c.userId
             THEN c.outcome = "error"
             ELSE /\ c.outcome = "ok"
                  /\ RowsOf(c.value) = rows
                  /\ Len(c.value) = Cardinality(rows)

C21_Witness ==
  \E p \in SeqProcs :
    LET c == calls[p] IN
    /\ Finished(p, "getReportComments")
    /\ c.userRole = "STAFF"
    /\ c.outcome = "error"
    /\ \E r \in reports : r.id = c.input.id /\ r.created_by # c.userId
    /\ \E k \in comments : k.report_id = c.input.id

\* C22: uploadAttachment stores an attachment only for the report's creator:
\* every other caller, PIMPINAN and ADMIN users included, gets the permission
\* error, a missing report gives the not-found error, and in both failures the
\* attachments are as before.
C22_UploadCreatorOnly ==
  \A p \in SeqProcs :
    LET c == calls[p]
        stored == {r \in c.pre.reports : r.id = c.input.report_id}
    IN
    Finished(p, "uploadAttachment") =>
      /\ stored = {} =>
           /\ c.outcome = "error"
           /\ c.error = "Report not found"
           /\ attachments = c.pre.attachments
      /\ \A r \in stored :
           IF r.created_by = c.userId
             THEN /\ c.outcome = "ok"
                  /\ c.value[1] \notin c.pre.attachments
                  /\ c.value[1].report_id = r.id
                  /\ attachments = c.pre.attachments \cup {c.value[1]}
             ELSE /\ c.outcome = "error"
                  /\ c.error = "Permission denied: Only report creators can add attachments"
                  /\ attachments = c.pre.attachments

C22_Witness ==
  \E p \in SeqProcs :
    LET c == calls[p] IN
    /\ Finished(p, "uploadAttachment")
    /\ StoredRole(c.userId) = "ADMIN"
    /\ c.outcome = "error"
    /\ \E r \in reports : r.id = c.input.report_id
    /\ attachments # {}

\* C23: deleteAttachment returns false and leaves every attachment in place
\* when the attachment does not exist or when the caller is STAFF and did not
\* create the parent report; when the caller created the parent report or has
\* role ADMIN or PIMPINAN it removes exactly that attachment and returns true.
C23_DeleteAttachmentResult ==
  \A p \in SeqProcs :
    LET c == calls[p]
        target == {a \in c.pre.attachments :
                     /\ a.id = c.input.id
                     /\ \E r \in reports :
                          /\ r.id = a.report_id
                          /\ r.created_by = c.userId \/ c.userRole \in {"ADMIN", "PIMPINAN"}}
    IN
    Finished(p, "deleteAttachment") =>
      /\ c.outcome = "ok"
      /\ c.value = (target # {})
      /\ attachments = c.pre.attachments \ target
      /\ Cardinality(target) <= 1

C23_Witness ==
  \E p \in SeqProcs :
    LET c == calls[p] IN
    /\ Finished(p, "deleteAttachment")
    /\ c.userRole = "STAFF"
    /\ c.value = FALSE
    /\ \E a \in attachments, r \in reports :
         a.id = c.input.id /\ r.id = a.report_id /\ r.created_by # c.userId

\* C24: once deleteAttachment has removed the attachment's row, the row stays
\* deleted and the call ends with true and no error, whether the file was
\* missing, was removed, or could not be removed.
C24_BlobFailureIgnored ==
  \A p \in SeqProcs :
    LET c == calls[p] IN
    (c.op = "deleteAttachment" /\ c.attachment # <<>> /\ c.pc \in {"unlink", "done"}) =>
      /\ \A a \in attachments : a.id # c.input.id
      /\ c.pc = "done" => (c.outcome = "ok" /\ c.value = TRUE)

C24_Witness ==
  \E p \in SeqProcs :
    LET c == calls[p] IN
    /\ Finished(p, "deleteAttachment")
    /\ c.value = TRUE
    /\ c.attachment[1].file_path \in blobs

\* The reports a getDashboardStats caller may see.
Scoped(c) ==
  {r \in reports : c.userRole = "STAFF" => r.created_by = c.userId}

\* C26: getDashboardStats counts, for a STAFF caller, only the caller's own
\* reports and, for a PIMPINAN or ADMIN caller, all reports: total_reports is
\* the size of that set and each status count is the number of its reports
\* with that status.
C26_DashboardCounts ==
  \A p \in SeqProcs :
    LET c == calls[p]
        n(st) == Cardinality({r \in Scoped(c) : r.status = st})
    IN
    Finished(p, "getDashboardStats") =>
      /\ c.outcome = "ok"
      /\ c.value.total_reports = Cardinality(Scoped(c))
      /\ c.value.draft_reports = n("DRAFT")
      /\ c.value.submitted_reports = n("SUBMITTED")
      /\ c.value.approved_reports = n("APPROVED")
      /\ c.value.rejected_reports = n("REJECTED")

C26_Witness ==
  \E p \in SeqProcs :
    LET c == calls[p] IN
    /\ Finished(p, "getDashboardStats")
    /\ c.userRole = "STAFF"
    /\ c.value.total_reports >= 2
    /\ c.value.total_reports < Cardinality(reports)
    /\ c.value.approved_reports >= 1
    /\ c.value.draft_reports >= 1

\* C27: recent_reports holds the min(10, n) most recently created reports of
\* the caller's role-scoped set of n reports, each once, in descending
\* created_at order, and no report outside that set.
C27_RecentReports ==
  \A p \in SeqProcs :
    LET c == calls[p]
        recent == c.value.recent_reports
    IN
    Finished(p, "getDashboardStats") =>
      /\ Len(recent) = Min(10, Cardinality(Scoped(c)))
      /\ RowsOf(recent) \subseteq Scoped(c)
      /\ Cardinality(RowsOf(recent)) = Len(recent)
      /\ \A i, j \in 1..Len(recent) : i < j => recent[i].created_at >= recent[j].created_at
      /\ \A r \in Scoped(c) \ RowsOf(recent) :
           \A i \in 1..Len(recent) : r.created_at <= recent[i].created_at

C27_Witness ==
  \E p \in SeqProcs :
    LET c == calls[p] IN
    /\ Finished(p, "getDashboardStats")
    /\ Cardinality(Scoped(c)) = 11
    /\ Len(c.value.recent_reports) = 10
    /\ c.value.recent_reports[1].created_at > c.value.recent_reports[10].created_at

\* C25: every getDashboardStats result is one consistent snapshot, also when
\* a create, update, review or delete of a report runs concurrently with it:
\* total_reports is the sum of the four status counts and recent_reports has
\* exactly min(10, total_reports) entries.
C25_DashboardSnapshot ==
  \A p \in Procs :
    LET c == calls[p] IN
    (Finished(p, "getDashboardStats") /\ c.outcome = "ok") =>
      /\ c.value.total_reports =
           c.value.draft_reports + c.value.submitted_reports
             + c.value.approved_reports + c.value.rejected_reports
      /\ Len(c.value.recent_reports) = Min(10, c.value.total_reports)

\* C28: getReports returns the records at positions offset+1 .. offset+limit of
\* an ordering of the matching reports by created_at descending: at most limit
\* records, none when offset is at or beyond the number of matches, each a
\* matching report at a position its created_at allows.
C28_PageOfDescendingOrder ==
  \A p \in SeqProcs :
    LET c == calls[p]
        matches == Matching(c.input, c.userId, c.userRole)
        page == c.value.reports
        newer(r) == Cardinality({m \in matches : m.created_at > r.created_at})
        notOlder(r) == Cardinality({m \in matches : m.created_at >= r.created_at})
    IN
    Finished(p, "getReports") =>
      /\ Len(page) = Max(0, Min(c.input.limit, Cardinality(matches) - c.input.offset))
      /\ RowsOf(page) \subseteq matches
      /\ Cardinality(RowsOf(page)) = Len(page)
      /\ \A i, j \in 1..Len(page) : i < j => page[i].created_at >= page[j].created_at
      /\ \A i \in 1..Len(page) :
           /\ newer(page[i]) < c.input.offset + i
           /\ notOlder(page[i]) >= c.input.offset + i

C28_Witness ==
  \E p \in SeqProcs :
    LET c == calls[p] IN
    /\ Finished(p, "getReports")
    /\ c.input.offset = 1 /\ c.input.limit = 2
    /\ c.value.total = 2
    /\ Len(c.value.reports) = 1
    /\ \E r \in reports : r.created_at > c.value.reports[1].created_at

C28_WitnessBeyond ==
  \E p \in SeqProcs :
    LET c == calls[p] IN
    /\ Finished(p, "getReports")
    /\ c.input.offset = 1
    /\ c.value.total = 1
    /\ Len(c.value.reports) = 0

\* C29: for a PIMPINAN or ADMIN caller getReports matches exactly the reports
\* that satisfy every supplied filter together: status equal to the status
\* filter, created_by equal to the creator filter, activity_date within the
\* from and to bounds, both inclusive and each optional.
C29_FiltersConjunctive ==
  \A p \in SeqProcs :
    LET c == calls[p]
        wanted == {r \in reports :
                     /\ Has(c.input, "status") => r.status = c.input.status
                     /\ Has(c.input, "created_by") => r.created_by = c.input.created_by
                     /\ Has(c.input, "activity_date_from") =>
                          r.activity_date >= c.input.activity_date_from
                     /\ Has(c.input, "activity_date_to") =>
                          r.activity_date <= c.input.activity_date_to}
    IN
    (Finished(p, "getReports") /\ c.userRole \in {"PIMPINAN", "ADMIN"}
       /\ ~Has(c.input, "search")) =>
      /\ c.value.total = Cardinality(wanted)
      /\ RowsOf(c.value.reports) \subseteq wanted

\* C30: with a search term, getReports matches a report exactly when the term
\* occurs, letter case ignored, as a substring of the report's title, of its
\* description or of its location, and this is combined by AND with role
\* scoping and the other filters.
C30_SearchIsSubstring ==
  \A p \in SeqProcs :
    LET c == calls[p]
        wanted == {r \in reports :
                     /\ c.userRole = "STAFF" => r.created_by = c.userId
                     /\ SatisfiesFilters(c.input, r)}
    IN
    (Finished(p, "getReports") /\ Has(c.input, "search")) =>
      /\ c.value.total = Cardinality(wanted)
      /\ RowsOf(c.value.reports) = wanted

\* C31: getReportById changes no stored state, and two calls with the same
\* arguments and no mutation between them return identical records.
C31_GetByIdIdempotent ==
  \A p \in Procs :
    Finished(p, "getReportById") =>
      /\ TablesUntouched(p)
      /\ users = InitUsers
      /\ \A q \in Procs :
           (/\ Finished(q, "getReportById")
            /\ calls[q].input = calls[p].input
            /\ calls[q].userId = calls[p].userId
            /\ calls[q].userRole = calls[p].userRole) =>
             /\ calls[q].outcome = calls[p].outcome
             /\ calls[q].value = calls[p].value

C31_Witness ==
  /\ \A p \in Procs : Finished(p, "getReportById") /\ calls[p].outcome = "ok"
  /\ calls[1].input = calls[2].input
  /\ calls[1].userId = calls[2].userId
  /\ calls[1].userRole = calls[2].userRole
  /\ Len(calls[1].value) = 1
  /\ calls[2].value = calls[1].value

\* C32: in every reachable state no two users share a username and no two
\* users share an email; a registerUser that fails adds no user, and an
\* updateUserProfile that fails changes no user.
C32_UsersUnique ==
  /\ [](\A u, v \in users :
          (u.username = v.username \/ u.email = v.email \/ u.id = v.id) => u = v)
  /\ [][\A p \in Procs :
          (calls[p].op \in {"registerUser", "updateUserProfile"}
             /\ calls[p].pc # "done"
             /\ calls'[p].pc = "done" /\ calls'[p].outcome = "error") =>
            users' = users]_vars

C32_Witness ==
  \E p \in Procs :
    /\ Finished(p, "registerUser")
    /\ calls[p].outcome = "error"
    /\ \E u \in users : u.id >= 5 /\ u.email = calls[p].input.email
    /\ \A u \in users : u.username # calls[p].input.username
    /\ users = calls[p].pre.users

C32_WitnessProfile ==
  \E p \in Procs :
    /\ Finished(p, "updateUserProfile")
    /\ calls[p].outcome = "error"
    /\ Has(calls[p].input, "email")
    /\ \E u \in users : u.id # calls[p].input.id /\ u.email = calls[p].input.email

\* C37: a user created by registerUser with password p can log in afterwards:
\* loginUser with that username and p returns the user, and loginUser with
\* that username and any other password returns null.
C37_RegisteredUserLogsIn ==
  \A p, q \in Procs :
    LET registration == calls[p]
        login == calls[q]
    IN
    (/\ Finished(p, "registerUser") /\ registration.outcome = "ok"
     /\ Finished(q, "loginUser")
     /\ registration.value \in login.pre.users
     /\ login.input.username = registration.input.username) =>
      /\ login.outcome = "ok"
      /\ login.input.password = registration.input.password =>
           login.value = <<registration.value>>
      /\ login.input.password # registration.input.password =>
           login.value = <<>>

\* C33: comments are append-only: in every step a stored comment keeps its
\* text, author and report, or it is removed in the step that deletes its
\* report; no other step removes or changes a comment.
C33_CommentsAppendOnly ==
  [][\A c \in comments :
       \/ c \in comments'
       \/ /\ \A d \in comments' : d.id # c.id
          /\ \E r \in reports : r.id = c.report_id
          /\ \A r \in reports' : r.id # c.report_id]_vars

C33_Witness ==
  \E p \in SeqProcs :
    /\ Finished(p, "deleteReport") /\ calls[p].value = TRUE
    /\ calls[p].pre.comments \ comments # {}
    /\ calls[p].pre.comments \cap comments # {}
    /\ \E c \in comments : c.id > MaxComments - 1

\* C34: the write of a STAFF user's updateReport never hits a report whose
\* status is no longer DRAFT at the moment of the write, also when a submit
\* and a reviewReport of the report ran after the update's status check.
C34_StaffWriteHitsDraftOnly ==
  [][\A p \in Procs :
       (/\ calls[p].op = "updateReport" /\ calls[p].pc = "update"
        /\ calls[p].user[1].role = "STAFF"
        /\ calls'[p].pc = "done") =>
         \A r \in reports : r.id = calls[p].input.id => r.status = "DRAFT"]_vars

\* C35: every reviewReport call that returns without an error returns the
\* reviewed report with the requested status, also when a deleteReport of the
\* report ran between its status check and its update; it never returns an
\* absent record as a success.
C35_ReviewReturnsReviewedReport ==
  \A p \in Procs :
    (Finished(p, "reviewReport") /\ calls[p].outcome = "ok") =>
      /\ Len(calls[p].value) = 1
      /\ calls[p].value[1].id = calls[p].input.report_id
      /\ calls[p].value[1].status = calls[p].input.status

\* C36: of two deleteReport calls by permitted callers that run concurrently
\* on the same existing report, exactly one returns true and the other
\* returns false.
C36_ExactlyOneDeleteWins ==
  (\A p \in Procs : Finished(p, "deleteReport")) =>
    /\ \A p \in Procs : calls[p].outcome = "ok"
    /\ Cardinality({p \in Procs : calls[p].value = TRUE}) = 1
    /\ Cardinality({p \in Procs : calls[p].value = FALSE}) = 1
    /\ reports = {}

C36_Witness ==
  /\ \A p \in Procs : Finished(p, "deleteReport")
  /\ calls[1].userId # calls[2].userId
  /\ calls[2].value = TRUE
  /\ calls[1].value = FALSE

\* C39: reviewReport checks the caller's role before it looks up the report:
\* the call of a STAFF user never reaches the report lookup, and its response
\* is the one error 'Insufficient permissions to review reports' whether or
\* not a report with the given id exists.
C39_StaffReviewLearnsNothing ==
  \A p \in SeqProcs :
    (calls[p].op = "reviewReport" /\ StoredRole(calls[p].userId) = "STAFF") =>
      /\ calls[p].pc \in {"selectUser", "done"}
      /\ calls[p].pc = "done" =>
           <<calls[p].outcome, calls[p].error, calls[p].value>> =
             <<"error", "Insufficient permissions to review reports", <<>> >>

C39_Witness ==
  \E p \in SeqProcs :
    /\ Finished(p, "reviewReport")
    /\ StoredRole(calls[p].userId) = "STAFF"
    /\ calls[p].error = "Insufficient permissions to review reports"
    /\ reports # {}
    /\ \A r \in reports : r.id # calls[p].input.report_id

C39_WitnessExisting ==
  \E p \in SeqProcs :
    /\ Finished(p, "reviewReport")
    /\ StoredRole(calls[p].userId) = "STAFF"
    /\ calls[p].error = "Insufficient permissions to review reports"
    /\ \E r \in reports : r.id = calls[p].input.report_id /\ r.status = "DRAFT"

\* C38: a caller is given another user's report only when the role passed
\* for the caller is PIMPINAN or ADMIN; every other role value is confined to
\* the reports the caller created.
C38_ForeignReportsNeedReviewerRole ==
  \A p \in SeqProcs :
    (/\ Finished(p, "getReportById")
     /\ calls[p].outcome = "ok"
     /\ calls[p].value # <<>>
     /\ calls[p].value[1].created_by # calls[p].userId) =>
      calls[p].userRole \in {"PIMPINAN", "ADMIN"}
====
